---------------------------- MODULE Spec2Model ----------------------------
(***************************************************************************)
(* The CSV ledger (index.csv) of the team-banners scripts and the          *)
(* operations that read and write it: the CLI script (team_banners.py),    *)
(* the lite CLI (team_banners_lite.py) and the Tkinter GUI                 *)
(* (team_banners_Tkinter.py).                                              *)
(*                                                                         *)
(* Text is a sequence of characters.  A character is a one-element token:  *)
(* the four characters the csv module treats specially (comma, double      *)
(* quote, CR, LF) or an ordinary token.  An ordinary token stands for a    *)
(* run of ordinary characters ("Timestamp", "jpg", "a"); the csv module    *)
(* and the scripts never look inside such a run.                           *)
(***************************************************************************)
EXTENDS Integers, Sequences, FiniteSets, TLC

VARIABLES
    csv_file,        \* the ledger file index.csv: [exists, text]
    import_dir,      \* "Images import": the set of file names in it
    export_dir,      \* "Images export": file name -> content (the import file it was copied from)
    config,          \* the configuration: [api_key, enable_upload]
    clock,           \* datetime.now(), as a tick counter
    op,              \* the operation that ran last, with its inputs and results
    edit,            \* the CLI edit_entry session: in-memory header and data, or closed
    gui              \* the GUI upload batch: threads, result queue, polling callback

vars == <<csv_file, import_dir, export_dir, config, clock, op, edit, gui>>

-----------------------------------------------------------------------------
(* Characters and strings *)

COMMA == ","
DQ == "DQ"
CR == "CR"
LF == "LF"

Special == {COMMA, DQ, CR, LF}

\* Python joins strings with +; here a string is a sequence of characters.
Str(c) == <<c>>

EmptyStr == <<>>


Contains(s, c) == \E i \in 1..Len(s) : s[i] = c

Range(s) == {s[i] : i \in 1..Len(s)}

\* The code point order of the characters the model uses (ASCII), for sorted().
Rank(c) ==
    CASE c = LF -> 10
      [] c = CR -> 13
      [] c = DQ -> 34
      [] c = COMMA -> 44
      [] c = "." -> 46
      [] c = "0" -> 48
      [] c = "1" -> 49
      [] c = "2" -> 50
      [] c = "3" -> 51
      [] c = "4" -> 52
      [] c = "5" -> 53
      [] c = "6" -> 54
      [] c = "7" -> 55
      [] c = "8" -> 56
      [] c = "9" -> 57
      [] c = "_" -> 95
      [] c = "a" -> 97
      [] c = "b" -> 98
      [] c = "conflict" -> 99
      [] c = "h" -> 104
      [] c = "jpg" -> 106
      [] c = "k" -> 107
      [] c = "png" -> 112
      [] c = "t" -> 116
      [] c = "u" -> 117
      [] c = "x" -> 120
      [] c = "y" -> 121
      [] OTHER -> 122

\* s < t in Python's string order
RECURSIVE StrLess(_, _)
StrLess(s, t) ==
    IF t = <<>> THEN FALSE
    ELSE IF s = <<>> THEN TRUE
    ELSE IF Rank(Head(s)) < Rank(Head(t)) THEN TRUE
    ELSE IF Rank(Head(s)) > Rank(Head(t)) THEN FALSE
    ELSE StrLess(Tail(s), Tail(t))

\* sorted(S) for a set of strings
RECURSIVE Sorted(_)
Sorted(S) ==
    IF S = {} THEN <<>>
    ELSE LET m == CHOOSE x \in S : \A y \in S \ {x} : StrLess(x, y)
         IN  <<m>> \o Sorted(S \ {m})


\* the orders os.listdir may return a directory's names in
Listings(S) == {q \in [1..Cardinality(S) -> S] : Range(q) = S}

-----------------------------------------------------------------------------
(* The csv module as the scripts use it: csv.writer(f).writerow and        *)
(* csv.reader(f) with the default dialect, files opened with newline=''.   *)

\* csv.writer: a field is quoted when it holds the delimiter, the quote
\* character or a character of the line terminator; quotes are doubled.
RECURSIVE DoubleQuotes(_)
DoubleQuotes(s) ==
    IF s = <<>> THEN <<>>
    ELSE IF Head(s) = DQ THEN <<DQ, DQ>> \o DoubleQuotes(Tail(s))
    ELSE <<Head(s)>> \o DoubleQuotes(Tail(s))

\* a writer that would never quote a field (what C8 rules out)
CsvFieldUnquoted(s) == DoubleQuotes(s)

CsvField(s) ==
    IF \E c \in Special : Contains(s, c)
    THEN <<DQ>> \o DoubleQuotes(s) \o <<DQ>>
    ELSE s

RECURSIVE CsvJoin(_)
CsvJoin(row) ==
    IF row = <<>> THEN <<>>
    ELSE IF Len(row) = 1 THEN CsvField(row[1])
    ELSE CsvField(row[1]) \o <<COMMA>> \o CsvJoin(Tail(row))

\* writer.writerow(row): a row of one empty field is written as "".
CsvWriteRow(row) ==
    (IF Len(row) = 1 /\ row[1] = <<>> THEN <<DQ, DQ>> ELSE CsvJoin(row)) \o <<CR, LF>>

\* writer.writerows(rows)
RECURSIVE CsvWriteRows(_)
CsvWriteRows(rows) ==
    IF rows = <<>> THEN <<>> ELSE CsvWriteRow(Head(rows)) \o CsvWriteRows(Tail(rows))

\* csv.reader: the parser's state machine.  st = [s, field, fields, rows].
ParseInit == [s |-> "START_RECORD", field |-> <<>>, fields |-> <<>>, rows |-> <<>>]

AddChar(st, c) == [st EXCEPT !.field = @ \o <<c>>]

SaveField(st) == [st EXCEPT !.fields = Append(@, st.field), !.field = <<>>]

EmitRecord(st) ==
    [s |-> "START_RECORD", field |-> <<>>, fields |-> <<>>, rows |-> Append(st.rows, st.fields)]

StartField(st, c) ==
    IF c \in {CR, LF} THEN [SaveField(st) EXCEPT !.s = "EAT_CRNL"]
    ELSE IF c = DQ THEN [st EXCEPT !.s = "IN_QUOTED_FIELD"]
    ELSE IF c = COMMA THEN [SaveField(st) EXCEPT !.s = "START_FIELD"]
    ELSE [AddChar(st, c) EXCEPT !.s = "IN_FIELD"]

ParseChar(st, c) ==
    CASE st.s = "START_RECORD" ->
            IF c \in {CR, LF} THEN [st EXCEPT !.s = "EAT_CRNL"] ELSE StartField(st, c)
      [] st.s = "START_FIELD" -> StartField(st, c)
      [] st.s = "IN_FIELD" ->
            IF c \in {CR, LF} THEN [SaveField(st) EXCEPT !.s = "EAT_CRNL"]
            ELSE IF c = COMMA THEN [SaveField(st) EXCEPT !.s = "START_FIELD"]
            ELSE AddChar(st, c)
      [] st.s = "IN_QUOTED_FIELD" ->
            IF c = DQ THEN [st EXCEPT !.s = "QUOTE_IN_QUOTED_FIELD"] ELSE AddChar(st, c)
      [] st.s = "QUOTE_IN_QUOTED_FIELD" ->
            IF c = DQ THEN [AddChar(st, c) EXCEPT !.s = "IN_QUOTED_FIELD"]
            ELSE IF c = COMMA THEN [SaveField(st) EXCEPT !.s = "START_FIELD"]
            ELSE IF c \in {CR, LF} THEN [SaveField(st) EXCEPT !.s = "EAT_CRNL"]
            ELSE [AddChar(st, c) EXCEPT !.s = "IN_FIELD"]
      [] st.s = "EAT_CRNL" ->
            IF c \in {CR, LF} THEN st
            ELSE [st EXCEPT !.s = "ERROR"]   \* csv.Error: new-line character seen in unquoted field
      [] OTHER -> st

\* the end of a line of the file: the record ends unless a quoted field is open
ParseEol(st) ==
    CASE st.s \in {"IN_QUOTED_FIELD", "ERROR"} -> st
      [] st.s \in {"START_FIELD", "IN_FIELD", "QUOTE_IN_QUOTED_FIELD"} -> EmitRecord(SaveField(st))
      [] OTHER -> EmitRecord(st)

\* a file opened with newline='' yields lines ending in LF, CR LF or a lone CR
EndsLine(text, i) ==
    \/ i = Len(text)
    \/ text[i] = LF
    \/ text[i] = CR /\ text[i + 1] # LF

\* the file is exhausted: an open quoted field or a pending field ends the last record
ParseEof(st) ==
    IF st.s = "ERROR" THEN st.rows
    ELSE IF st.field # <<>> \/ st.s = "IN_QUOTED_FIELD" THEN EmitRecord(SaveField(st)).rows
    ELSE st.rows

\* one character of the file, and the end of its line if it ends one
ParseStep(st, text, i) ==
    LET st1 == ParseChar(st, text[i])
    IN  IF EndsLine(text, i) THEN ParseEol(st1) ELSE st1

\* the parser fed the characters lo..hi of the text, in order; a csv.Error ends
\* the parse (the range is halved so that the evaluation stays shallow)
RECURSIVE ParseRange(_, _, _, _)
ParseRange(text, lo, hi, st) ==
    IF lo > hi THEN st
    ELSE IF lo = hi THEN ParseStep(st, text, lo)
    ELSE LET mid == (lo + hi) \div 2
             left == ParseRange(text, lo, mid, st)
         IN  IF left.s = "ERROR" THEN left ELSE ParseRange(text, mid + 1, hi, left)

\* list(csv.reader(f)): the records of a text (those read before a csv.Error)
CsvParseState(text) == ParseRange(text, 1, Len(text), ParseInit)

CsvError(text) == CsvParseState(text).s = "ERROR"

CsvParse(text) == ParseEof(CsvParseState(text))

-----------------------------------------------------------------------------
(* The ledger file and the three functions that read and write it *)

Absent == [exists |-> FALSE, text |-> <<>>]

File(text) == [exists |-> TRUE, text |-> text]

\* header = ["Timestamp", "Original", "Renamed", "URL"]
HEADER == <<Str("Timestamp"), Str("Original"), Str("Renamed"), Str("URL")>>

\* original_col_index = 1 (0-based): the second column
OriginalCol == 2

\* a filter that would skip only the files whose row has a URL (what C1 rules out)
ReadUploadedOnly(f) ==
    IF ~f.exists THEN {}
    ELSE LET recs == CsvParse(f.text)
         IN  {recs[i][OriginalCol] : i \in {j \in 2..Len(recs) : Len(recs[j]) >= 4 /\ recs[j][4] # <<>>}}

\* read_uploaded_originals(csv_path): the set of names the duplicate filter skips
read_uploaded_originals(f) ==
    IF ~f.exists THEN {}
    ELSE LET recs == CsvParse(f.text)
         IN  IF recs = <<>> \/ Head(recs) = <<>> THEN {}
             ELSE IF Len(Head(recs)) < OriginalCol THEN {}
             ELSE {recs[i][OriginalCol] : i \in {j \in 2..Len(recs) : Len(recs[j]) >= OriginalCol}}

NoLedger == [none |-> TRUE, header |-> <<>>, data |-> <<>>, malformed |-> 0]

\* a validation that would keep longer rows too (what C5 rules out)
ValidRowAtLeast(row, num_columns) == Len(row) >= num_columns

\* if len(row) == num_columns
ValidRow(row, num_columns) == Len(row) = num_columns

\* get_csv_data(csv_path): (header, validated_data), and the malformed_count it reports
get_csv_data(f) ==
    IF ~f.exists THEN NoLedger
    ELSE LET parsed == CsvParseState(f.text)
             recs == ParseEof(parsed)
         IN  IF parsed.s = "ERROR" \/ recs = <<>> \/ Head(recs) = <<>> THEN NoLedger
             ELSE LET header == Head(recs)
                      data == Tail(recs)
                      validated_data == SelectSeq(data, LAMBDA row : ValidRow(row, Len(header)))
                  IN  [none |-> FALSE, header |-> header, data |-> validated_data,
                       malformed |-> Len(data) - Len(validated_data)]

\* a header test that would overlook a file of size 0 (what C7 rules out)
WriteHeaderIfAbsent(f) == ~f.exists

\* write_to_csv(csv_path, upload_data): append, with the header first when the
\* file is absent or has size 0; nothing at all for an empty list
write_header(f) == ~f.exists \/ f.text = <<>>

write_to_csv(f, upload_data) ==
    IF upload_data = <<>> THEN f
    ELSE File(f.text
              \o (IF write_header(f) THEN CsvWriteRow(HEADER) ELSE <<>>)
              \o CsvWriteRows(upload_data))

\* a rewrite that would leave the header out (what C9 rules out)
RewriteWithoutHeader(header, data) == File(CsvWriteRows(data))

\* open(csv_path, 'w'); writer.writerow(header); writer.writerows(data)
rewrite_csv(header, data) == File(CsvWriteRow(header) \o CsvWriteRows(data))

-----------------------------------------------------------------------------
(* The duplicate filter of the two import sources *)

\* download_drive_folder / download_drive_folder_thread: after the download,
\*   for file in sorted(list(files_after_download)):
\*       if file not in uploaded_originals: files_to_process.append(file)
drive_files_to_process(f, files_after_download) ==
    LET uploaded_originals == read_uploaded_originals(f)
    IN  SelectSeq(Sorted(files_after_download), LAMBDA file : file \notin uploaded_originals)

\* a local import that would process every file it lists (what C29 rules out)
LocalFilesUnfiltered(f, local_files) == local_files

\* start_script (Local Folder) / process_local_folder: local_files is os.listdir's list,
\*   files_to_process = [f for f in local_files if f not in uploaded_originals]
local_files_to_process(f, local_files) ==
    LET uploaded_originals == read_uploaded_originals(f)
    IN  SelectSeq(local_files, LAMBDA file : file \notin uploaded_originals)

-----------------------------------------------------------------------------
(* File names, the export folder and the two rename steps of the pipeline *)

\* os.path.splitext(name): the extension starts at the last "." that is not the
\* first character
DotAt(name) ==
    LET dots == {i \in 2..Len(name) : name[i] = "."}
    IN  IF dots = {} THEN 0 ELSE CHOOSE i \in dots : \A j \in dots : j <= i

SplitBase(name) == IF DotAt(name) = 0 THEN name ELSE SubSeq(name, 1, DotAt(name) - 1)

SplitExt(name) == IF DotAt(name) = 0 THEN <<>> ELSE SubSeq(name, DotAt(name), Len(name))

Digit(d) == <<"0", "1", "2", "3", "4", "5", "6", "7", "8", "9">>[d + 1]

\* str(n) for n >= 0
RECURSIVE Decimal(_)
Decimal(n) == IF n < 10 THEN <<Digit(n)>> ELSE Decimal(n \div 10) \o <<Digit(n % 10)>>

\* f"{n:0{num_digits}d}"
RECURSIVE Padded(_, _)
Padded(n, num_digits) ==
    LET d == Decimal(n)
    IN  IF Len(d) >= num_digits THEN d ELSE <<"0">> \o Padded(n, num_digits - 1)

\* a folder: the names of its files and, for each, the picture it holds (the
\* name the picture had in the import folder)
Names(dir) == DOMAIN dir

PutFile(dir, name, content) == [n \in DOMAIN dir \cup {name} |-> IF n = name THEN content ELSE dir[n]]

RemoveFile(dir, name) == [n \in DOMAIN dir \ {name} |-> dir[n]]

\* new_filename = None
NoName == <<>>

\* prompt_rename_images, the conflict loop of one file: yes_at is the prompt at
\* which the user answers y to "Overwrite?" (0: never)
RECURSIVE IndividualName(_, _, _, _, _, _)
IndividualName(export, new_filename, base, ext, counter, yes_at) ==
    IF new_filename \notin Names(export) THEN new_filename
    ELSE IF yes_at = counter THEN new_filename
    ELSE IF counter + 1 > 10 THEN NoName
    ELSE IndividualName(export, base \o <<"_">> \o Decimal(counter) \o ext, base, ext,
                        counter + 1, yes_at)

\* shutil.copy2(src_path, dest_path) of every file succeeds
AllCopied(n) == [i \in 1..n |-> TRUE]

\* prompt_rename_images(import_path, export_path, files_to_process): answers[i] is
\* what the user types for the i-th file of sorted(files_to_process) and
\* copy_ok[i] whether shutil.copy2 succeeds for it (a copy that raises writes
\* nothing and the file is skipped); files are the names left to do,
\* renamed_list the triples so far
RECURSIVE RenameIndividually(_, _, _, _, _, _)
RenameIndividually(import, export, files, answers, copy_ok, renamed_list) ==
    IF files = <<>> THEN [export |-> export, renamed_list |-> renamed_list]
    ELSE LET original_filename == Head(files)
             ans == Head(answers)
             ext == SplitExt(original_filename)
             base == IF ans.new_name_base # <<>> THEN ans.new_name_base
                     ELSE SplitBase(original_filename)
             first == IF ans.new_name_base # <<>> THEN ans.new_name_base \o ext
                      ELSE original_filename
             new_filename == IndividualName(export, first, base, ext, 1, ans.yes_at)
         IN  IF original_filename \notin import \/ new_filename = NoName \/ ~Head(copy_ok)
             THEN RenameIndividually(import, export, Tail(files), Tail(answers), Tail(copy_ok),
                                     renamed_list)
             ELSE RenameIndividually(import,
                                     PutFile(export, new_filename, original_filename),
                                     Tail(files), Tail(answers), Tail(copy_ok),
                                     Append(renamed_list, <<original_filename, new_filename>>))

prompt_rename_images(import, export, files_to_process, answers, copy_ok) ==
    RenameIndividually(import, export, Sorted(Range(files_to_process)), answers, copy_ok, <<>>)

\* a conflict loop that would suffix every name (what C17 rules out)
BulkNameSuffixed(export, new_filename, new_filename_base, ext, counter) ==
    new_filename_base \o <<"_", "conflict", "_">> \o Decimal(counter) \o ext

\* bulk_rename_files, the conflict loop of one file
RECURSIVE BulkName(_, _, _, _, _)
BulkName(export, new_filename, new_filename_base, ext, counter) ==
    IF new_filename \notin Names(export) THEN new_filename
    ELSE IF counter + 1 > 5 THEN NoName
    ELSE BulkName(export, new_filename_base \o <<"_", "conflict", "_">> \o Decimal(counter) \o ext,
                  new_filename_base, ext, counter + 1)

\* start_number = 1, num_digits = 2
start_number == 1

num_digits == 2

\* the loop of bulk_rename_files and of the GUI's bulk_rename_new_files_thread
\* with the base name the user enters; i is the index of
\* enumerate(sorted(files_to_process)), digits the width of the numbers and
\* copy_ok whether shutil.copy2 succeeds, file by file
RECURSIVE RenameInBulk(_, _, _, _, _, _, _, _)
RenameInBulk(import, export, files, base_name, i, digits, copy_ok, renamed_list) ==
    IF files = <<>> THEN [export |-> export, renamed_list |-> renamed_list]
    ELSE LET original_filename == Head(files)
             ext == SplitExt(original_filename)
             new_filename_base == base_name \o Padded(i + start_number, digits)
             new_filename == BulkName(export, new_filename_base \o ext, new_filename_base, ext, 1)
         IN  IF original_filename \notin import \/ new_filename = NoName \/ ~Head(copy_ok)
             THEN RenameInBulk(import, export, Tail(files), base_name, i + 1, digits,
                               Tail(copy_ok), renamed_list)
             ELSE RenameInBulk(import, PutFile(export, new_filename, original_filename),
                               Tail(files), base_name, i + 1, digits, Tail(copy_ok),
                               Append(renamed_list, <<original_filename, new_filename>>))

\* bulk_rename_files(import_path, export_path, files_to_process) of the CLI
bulk_rename_files(import, export, files_to_process, base_name, copy_ok) ==
    RenameInBulk(import, export, Sorted(Range(files_to_process)), base_name, 0, num_digits,
                 copy_ok, <<>>)

\* bulk_rename_new_files_thread(import_path, export_path, files_to_process, base_name)
\* of the GUI: num_digits = len(str(len(files_to_process) + start_number - 1))
bulk_rename_new_files_thread(import, export, files_to_process, base_name, copy_ok) ==
    RenameInBulk(import, export, Sorted(Range(files_to_process)), base_name, 0,
                 Len(Decimal(Len(files_to_process) + start_number - 1)), copy_ok, <<>>)

\* upload_to_sul(file_path, api_key): the URL the service answers with, None
\* when the request fails, or an exception when a precondition does not hold
UrlOf(filename) == <<"h">> \o filename

upload_to_sul(export, filename, api_key, answer) ==
    IF api_key = <<>> THEN [kind |-> "ValueError", url |-> <<>>]
    ELSE IF filename \notin Names(export) THEN [kind |-> "FileNotFoundError", url |-> <<>>]
    ELSE IF answer = "url" THEN [kind |-> "url", url |-> UrlOf(filename)]
    ELSE [kind |-> "None", url |-> <<>>]

\* str(url or "")
UrlOrEmpty(r) == IF r.kind = "url" THEN r.url ELSE <<>>

-----------------------------------------------------------------------------
(* Bounds and the small sets the inputs are drawn from *)

\* the most data rows a ledger file is built from in SpecCsv and SpecScan
MaxRows == 3

\* the most data rows a ledger file is built from in SpecScan
MaxScanRows == 2

\* the most rows one write_to_csv call is given in SpecCsv
MaxWrite == 2

\* the most operations of a run of Spec that write timestamps to the ledger
MaxClock == 2

NameA == <<"a", ".", "jpg">>
NameB == <<"b", ".", "jpg">>
NameC == <<"a", COMMA, "b", ".", "png">>

ImportNames == {NameA, NameB, NameC}

\* the pictures of the Drive folder, which are also those the user may place in
\* the import folder by hand
DriveFolder == {NameA, NameC}

\* what the user may type as a new name, a base name, an API key
NewBase == Str("x")
ApiKey == Str("k")

\* the answers of the user to the prompts of prompt_rename_images for one file
AnswerPool ==
    { [new_name_base |-> <<>>, yes_at |-> 0],
      [new_name_base |-> NewBase, yes_at |-> 0],
      [new_name_base |-> NewBase, yes_at |-> 1] }

Ts0 == Str("t")
UrlU == Str("u")
Tricky == <<"x", COMMA, DQ, LF, "y">>

\* first rows a ledger file may have: the header, a header of three columns, one
\* with the right names in another order, one of a single column, a blank line
HeaderPool ==
    { HEADER,
      <<Str("Timestamp"), Str("Original"), Str("Renamed")>>,
      <<Str("Original"), Str("Timestamp"), Str("Renamed"), Str("URL")>>,
      <<Str("Timestamp")>>,
      <<>> }

\* data rows a ledger file may hold: well-formed rows (one with the characters
\* csv quotes and an empty URL), rows of three and five columns, a blank line
DataPool ==
    { <<Ts0, NameA, Str("x"), UrlU>>,
      <<Ts0, NameC, Tricky, EmptyStr>>,
      <<Ts0, NameB, Str("x")>>,
      <<Ts0, NameA, Str("x"), UrlU, Str("k")>>,
      <<>> }

\* rows write_to_csv is called with: (timestamp, original, renamed, url)
WritePool ==
    { <<Ts0, NameA, Str("x"), UrlU>>,
      <<EmptyStr, NameC, Tricky, EmptyStr>> }

SeqsUpTo(S, n) == UNION {[1..k -> S] : k \in 0..n}

\* the line endings of a ledger file on disk: as csv.writer writes them, or Unix
\* line endings with none after the last row (a file edited by hand)
Styles == {"crlf", "unix"}

RawRow(row) == IF Len(row) = 1 /\ row[1] = <<>> THEN <<DQ, DQ>> ELSE CsvJoin(row)

RECURSIVE RawText(_, _)
RawText(rows, style) ==
    IF rows = <<>> THEN <<>>
    ELSE IF style = "crlf" THEN RawRow(Head(rows)) \o <<CR, LF>> \o RawText(Tail(rows), style)
    ELSE IF Len(rows) = 1 THEN RawRow(rows[1])
    ELSE RawRow(Head(rows)) \o <<LF>> \o RawText(Tail(rows), style)

\* a last row of no fields needs its line ending to be a row at all
StyleFits(rows, style) == style = "unix" => rows[Len(rows)] # <<>>

\* the ledger files of the bounds: absent, of size 0, or a first row and data rows
LedgerInputs(n) ==
    {[file |-> Absent, held |-> <<>>], [file |-> File(<<>>), held |-> <<>>]}
    \cup UNION {{[file |-> File(RawText(<<h>> \o d, style)), held |-> <<h>> \o d] :
                     style \in {st \in Styles : StyleFits(<<h>> \o d, st)}} :
                 h \in HeaderPool, d \in SeqsUpTo(DataPool, n)}

-----------------------------------------------------------------------------
(* The state outside the ledger, at rest *)

NoFiles == [n \in {} |-> NameA]

\* edit_entry at rest, and its local variables while it runs: header_clean, data,
\* the selected entry (item_index, 0 when none is selected), original_row_data
\* and current_row_copy
EditClosed ==
    [open |-> FALSE, header_clean |-> <<>>, data |-> <<>>, item_index |-> 0,
     original_row_data |-> <<>>, current_row_copy |-> <<>>]

\* the GUI with no upload batch under way
GuiIdle == [phase |-> "idle"]

\* the most pictures of one upload batch of the GUI
MaxBatch == 3

\* no operation of interest was the last one
Idle == [name |-> "idle"]

NoWrite == [done |-> FALSE, pre |-> Absent, arg |-> <<>>, n |-> 0]

\* op: the last operation, what it was given and what it returned; held: the
\* rows the ledger file of the initial state was built from; w: the last
\* write_to_csv call (the file before it, its rows) and n, the rows written so far
Op(name, arg, res) == [name |-> name, arg |-> arg, res |-> res, held |-> op.held, w |-> op.w]

AtRest ==
    /\ export_dir = NoFiles
    /\ config = [api_key |-> EmptyStr, enable_upload |-> FALSE]
    /\ clock = 0
    /\ edit = EditClosed
    /\ gui = GuiIdle

-----------------------------------------------------------------------------
(* SpecCsv: the ledger functions applied to every ledger file of the bounds *)

InitCsv ==
    /\ \E in \in LedgerInputs(MaxRows) :
          /\ csv_file = in.file
          /\ op = [name |-> "file", arg |-> <<>>, res |-> <<>>, held |-> in.held, w |-> NoWrite]
    /\ import_dir = {}
    /\ AtRest

CsvGetData ==
    /\ op' = Op("get_csv_data", <<>>, get_csv_data(csv_file))
    /\ UNCHANGED <<csv_file, import_dir, export_dir, config, clock, edit, gui>>

CsvReadOriginals ==
    /\ op' = Op("read_uploaded_originals", <<>>, read_uploaded_originals(csv_file))
    /\ UNCHANGED <<csv_file, import_dir, export_dir, config, clock, edit, gui>>

CsvWrite ==
    \E upload_data \in SeqsUpTo(WritePool, MaxWrite) :
        /\ Len(op.held) + op.w.n + Len(upload_data) <= MaxRows + 1
        /\ csv_file' = write_to_csv(csv_file, upload_data)
        /\ op' = [name |-> "write_to_csv", arg |-> upload_data, res |-> <<>>, held |-> op.held,
                  w |-> [done |-> TRUE, pre |-> csv_file, arg |-> upload_data,
                         n |-> op.w.n + Len(upload_data)]]
        /\ UNCHANGED <<import_dir, export_dir, config, clock, edit, gui>>

NextCsv ==
    \/ CsvGetData
    \/ CsvReadOriginals
    \/ CsvWrite

SpecCsv == InitCsv /\ [][NextCsv]_vars

-----------------------------------------------------------------------------
(* Spec: the script, from a fresh base directory (no ledger, empty folders) *)

\* datetime.now().strftime(...): the time of the operation
Now == Decimal(clock + 1)

uploads_enabled == config.enable_upload

Init ==
    /\ csv_file = Absent
    /\ import_dir = {}
    /\ export_dir = NoFiles
    /\ config = [api_key |-> EmptyStr, enable_upload |-> FALSE]
    /\ clock = 0
    /\ edit = EditClosed
    /\ gui = GuiIdle
    /\ op = Idle

\* the user copies the pictures into the import folder
PlaceFile ==
    /\ ~edit.open
    /\ ~(DriveFolder \subseteq import_dir)
    /\ import_dir' = import_dir \cup DriveFolder
    /\ op' = Idle
    /\ UNCHANGED <<csv_file, export_dir, config, clock, edit, gui>>

\* the user deletes a file of the export folder
RemoveExportFile ==
    /\ ~edit.open
    /\ \E n \in Names(export_dir) : export_dir' = RemoveFile(export_dir, n)
    /\ op' = Idle
    /\ UNCHANGED <<csv_file, import_dir, config, clock, edit, gui>>

\* the settings config.ini can hold: init_config and the settings menu leave
\* uploads disabled while there is no API key; a config.ini without the
\* enable_upload key, or edited by hand, reads as enabled without a key
Settings == [api_key : {EmptyStr, ApiKey}, enable_upload : BOOLEAN]

\* the settings menu, or an editor: the API key and the upload switch
ChangeSettings ==
    /\ ~edit.open
    /\ \E c \in Settings \ {config} : config' = c
    /\ op' = Idle
    /\ UNCHANGED <<csv_file, import_dir, export_dir, clock, edit, gui>>

\* start_script, "Upload and Log": what upload_to_sul gives for each triple of
\* renamed_files_info, "skipped" when uploads are disabled or no API key is set
upload_results(export, renamed_files_info, answers) ==
    [i \in 1..Len(renamed_files_info) |->
        IF ~uploads_enabled \/ config.api_key = <<>> THEN [kind |-> "skipped", url |-> <<>>]
        ELSE upload_to_sul(export, renamed_files_info[i][2], config.api_key, answers[i])]

\* a log that would keep only the files that got a URL (what C2 rules out)
LogUploadedOnly(renamed_files_info, results) ==
    LET kept == SelectSeq([i \in 1..Len(results) |-> i], LAMBDA i : results[i].kind = "url")
    IN  [j \in 1..Len(kept) |->
            <<Now, renamed_files_info[kept[j]][1], renamed_files_info[kept[j]][2],
              results[kept[j]].url>>]

\* processed_for_csv: one row (timestamp, original_name, new_name, str(url or ""))
\* per triple, whatever the upload gave
upload_and_log(renamed_files_info, results) ==
    [i \in 1..Len(renamed_files_info) |->
        <<Now, renamed_files_info[i][1], renamed_files_info[i][2], UrlOrEmpty(results[i])>>]

\* what a run of start_script leaves: the folders, the lists it computed, the ledger
PipelineRun(import, files_to_process, renamed, answers) ==
    LET results == upload_results(renamed.export, renamed.renamed_list, answers)
        processed_for_csv == upload_and_log(renamed.renamed_list, results)
    IN  /\ processed_for_csv = <<>> \/ clock < MaxClock
        /\ import_dir' = import
        /\ export_dir' = renamed.export
        /\ csv_file' = write_to_csv(csv_file, processed_for_csv)
        /\ clock' = IF processed_for_csv = <<>> THEN clock ELSE clock + 1
        /\ op' = [name |-> "start_script", pre |-> csv_file,
                  files_to_process |-> files_to_process,
                  renamed_files_info |-> renamed.renamed_list,
                  results |-> results,
                  processed_for_csv |-> processed_for_csv]
        /\ UNCHANGED <<config, edit, gui>>

\* what the service may answer to the uploads of a run; no upload is made when
\* uploads are disabled or no API key is set
Served(n) ==
    IF ~uploads_enabled \/ config.api_key = <<>> THEN {[i \in 1..n |-> "None"]}
    ELSE [1..n -> {"url", "None"}]

\* start_script after the import source gave files_to_process: the rename menu
\* (1 individually, 2 in bulk, 0 cancel), then upload and log; the copies of the
\* rename step are taken to succeed
RenameUploadLog(import, files_to_process) ==
    \/ \E answers \in [1..Len(files_to_process) -> AnswerPool],
          served \in Served(Len(files_to_process)) :
          PipelineRun(import, files_to_process,
                      prompt_rename_images(import, export_dir, files_to_process, answers,
                                           AllCopied(Len(files_to_process))), served)
    \/ \E served \in Served(Len(files_to_process)) :
          PipelineRun(import, files_to_process,
                      bulk_rename_files(import, export_dir, files_to_process, NewBase,
                                        AllCopied(Len(files_to_process))), served)
    \/ PipelineRun(import, files_to_process, [export |-> export_dir, renamed_list |-> <<>>], <<>>)

\* start_script with Google Drive as the import source: gdown brings the Drive
\* folder's files into the import folder, or fails and nothing is processed
StartScriptDrive ==
    /\ ~edit.open
    /\ \/ RenameUploadLog(import_dir \cup DriveFolder,
                          drive_files_to_process(csv_file, import_dir \cup DriveFolder))
       \/ PipelineRun(import_dir, <<>>, [export |-> export_dir, renamed_list |-> <<>>], <<>>)

\* start_script with the local folder as the import source
StartScriptLocal ==
    /\ ~edit.open
    /\ \E local_files \in Listings(import_dir) :
          RenameUploadLog(import_dir, local_files_to_process(csv_file, local_files))

\* edit_entry: the ledger is read once; nothing to edit ends the function
EditOpen ==
    /\ ~edit.open
    /\ LET r == get_csv_data(csv_file)
       IN  edit' = IF r.none \/ r.data = <<>> THEN EditClosed
                   ELSE [EditClosed EXCEPT !.open = TRUE, !.header_clean = r.header,
                                           !.data = r.data]
    /\ op' = Idle
    /\ UNCHANGED <<csv_file, import_dir, export_dir, config, clock, gui>>

\* the entry selection loop: a number of the list, or 0 to leave edit_entry
EditSelect ==
    /\ edit.open
    /\ edit.item_index = 0
    /\ \/ \E i \in 1..Len(edit.data) :
             /\ Len(edit.data[i]) >= 4
             /\ edit' = [edit EXCEPT !.item_index = i, !.original_row_data = edit.data[i],
                                     !.current_row_copy = edit.data[i]]
       \/ edit' = EditClosed
    /\ op' = Idle
    /\ UNCHANGED <<csv_file, import_dir, export_dir, config, clock, gui>>

\* action 0: back to the entry selection
EditBack ==
    /\ edit.open
    /\ edit.item_index # 0
    /\ edit' = [edit EXCEPT !.item_index = 0, !.original_row_data = <<>>,
                            !.current_row_copy = <<>>]
    /\ op' = Idle
    /\ UNCHANGED <<csv_file, import_dir, export_dir, config, clock, gui>>

SetAt(seq, i, x) == [seq EXCEPT ![i] = x]

RemoveAt(seq, i) == SubSeq(seq, 1, i - 1) \o SubSeq(seq, i + 1, Len(seq))

\* if save_needed: data[item_index] = list(current_row_copy), then the ledger is
\* rewritten from header_clean and data (the file is taken to be writable)
EditSave(row) ==
    LET data == SetAt(edit.data, edit.item_index, row)
    IN  /\ edit' = [edit EXCEPT !.data = data, !.current_row_copy = row]
        /\ csv_file' = rewrite_csv(edit.header_clean, data)
        /\ clock' = clock + 1
        /\ op' = Idle

\* action 1, Change Renamed File
EditRename ==
    /\ edit.open
    /\ edit.item_index # 0
    /\ clock < MaxClock
    /\ \E new_name_base \in {NewBase}, reupload_choice \in BOOLEAN,
          served \in {"url", "None"} :
          LET current_renamed_name == edit.current_row_copy[3]
              current_url == edit.current_row_copy[4]
              new_renamed_name == new_name_base \o SplitExt(current_renamed_name)
              export == IF current_renamed_name \in Names(export_dir)
                           /\ new_renamed_name # current_renamed_name
                        THEN PutFile(RemoveFile(export_dir, current_renamed_name),
                                     new_renamed_name, export_dir[current_renamed_name])
                        ELSE export_dir
              uploaded == upload_to_sul(export, new_renamed_name, config.api_key, served)
              new_url == IF ~uploads_enabled THEN <<>>
                         ELSE IF reupload_choice /\ uploaded.kind = "url" THEN uploaded.url
                         ELSE current_url
          IN  /\ ~(new_renamed_name # current_renamed_name
                   /\ new_renamed_name \in Names(export_dir))
              /\ export_dir' = export
              /\ EditSave(<<Now, edit.current_row_copy[2], new_renamed_name, new_url>>)
    /\ UNCHANGED <<import_dir, config, gui>>

\* action 2, Re-upload File: saved only when the upload gave a URL
EditReupload ==
    /\ edit.open
    /\ edit.item_index # 0
    /\ clock < MaxClock
    /\ uploads_enabled
    /\ config.api_key # <<>>
    /\ edit.current_row_copy[3] \in Names(export_dir)
    /\ LET uploaded == upload_to_sul(export_dir, edit.current_row_copy[3], config.api_key, "url")
       IN  EditSave(<<Now, edit.current_row_copy[2], edit.current_row_copy[3], uploaded.url>>)
    /\ UNCHANGED <<import_dir, export_dir, config, gui>>

\* what the user may type as a URL
ManualUrls == {EmptyStr, <<"h", COMMA, DQ>>}

\* action 3, Manually Edit URL
EditUrl ==
    /\ edit.open
    /\ edit.item_index # 0
    /\ clock < MaxClock
    /\ \E manual_url \in ManualUrls :
          EditSave(<<Now, edit.current_row_copy[2], edit.current_row_copy[3], manual_url>>)
    /\ UNCHANGED <<import_dir, export_dir, config, gui>>

\* action 4, Delete Entry: the row leaves data, the local files are deleted on
\* request, the ledger is rewritten (the file is taken to be writable) and the
\* entry selection follows
EditDelete ==
    /\ edit.open
    /\ edit.item_index # 0
    /\ \E delete_files_choice \in BOOLEAN :
          LET data == RemoveAt(edit.data, edit.item_index)
              current_original_name == edit.current_row_copy[2]
              current_renamed_name == edit.current_row_copy[3]
          IN  /\ export_dir' = IF delete_files_choice /\ current_renamed_name \in Names(export_dir)
                               THEN RemoveFile(export_dir, current_renamed_name)
                               ELSE export_dir
              /\ import_dir' = IF delete_files_choice THEN import_dir \ {current_original_name}
                               ELSE import_dir
              /\ csv_file' = rewrite_csv(edit.header_clean, data)
              /\ edit' = [edit EXCEPT !.data = data, !.item_index = 0,
                                      !.original_row_data = <<>>, !.current_row_copy = <<>>]
    /\ op' = Idle
    /\ UNCHANGED <<config, clock, gui>>

\* the header test of bulk_upload_from_csv and run_bulk_rename_existing: the
\* first four names; an IndexError on a shorter header ends the function too
HeaderMatches(header) ==
    /\ Len(header) >= 4
    /\ SubSeq(header, 1, 4) = HEADER

\* bulk_upload_from_csv, the loop over data: rows with a URL or without their
\* export file are skipped, an upload that gives a URL updates URL and timestamp
RECURSIVE BulkUploadRows(_, _, _)
BulkUploadRows(data, served, idx) ==
    IF idx > Len(data) THEN data
    ELSE LET row == data[idx]
             new_url == upload_to_sul(export_dir, row[3], config.api_key, served[idx])
         IN  IF row[4] # <<>> \/ row[3] \notin Names(export_dir) \/ new_url.kind # "url"
             THEN BulkUploadRows(data, served, idx + 1)
             ELSE BulkUploadRows(SetAt(data, idx, <<Now, row[2], row[3], new_url.url>>),
                                 served, idx + 1)

\* bulk_upload_from_csv(config): the ledger is rewritten only if a row got a URL
BulkUploadFromCsv ==
    /\ ~edit.open
    /\ uploads_enabled
    /\ config.api_key # <<>>
    /\ clock < MaxClock
    /\ LET r == get_csv_data(csv_file)
       IN  /\ ~r.none
           /\ r.data # <<>>
           /\ HeaderMatches(r.header)
           /\ \E served \in [1..Len(r.data) -> {"url", "None"}] :
                 LET data == BulkUploadRows(r.data, served, 1)
                     updated == data # r.data
                 IN  /\ csv_file' = IF updated THEN rewrite_csv(r.header, data) ELSE csv_file
                     /\ clock' = IF updated THEN clock + 1 ELSE clock
                     /\ op' = [name |-> "bulk_upload_from_csv", pre |-> csv_file]
    /\ UNCHANGED <<import_dir, export_dir, config, edit, gui>>

\* old_path + "__bulk_rename_temp_..."
TempName(old_name) == old_name \o <<"_", "_", "tmp">>

\* run_bulk_rename_existing, the first pass over potential_renames: st holds the
\* export folder, final_data, temp_export_files and the three counters
RECURSIVE FirstPass(_, _, _, _, _)
FirstPass(data, base_name, digits, i, st) ==
    IF i > Len(data) THEN st
    ELSE LET old_name == data[i][3]
             new_name == base_name \o Padded(i - 1 + start_number, digits) \o SplitExt(old_name)
             stamped == SetAt(st.final_data, i, <<Now, data[i][2], new_name, data[i][4]>>)
             next ==
                 IF old_name \notin Names(st.export)
                 THEN [st EXCEPT !.skipped_count = @ + 1]
                 ELSE IF old_name = new_name THEN st
                 ELSE IF new_name \in Names(st.export)
                 THEN [st EXCEPT
                         !.export = PutFile(RemoveFile(@, old_name), TempName(old_name), @[old_name]),
                         !.temp_export_files = Append(@, [target |-> new_name,
                                                          temp |-> TempName(old_name),
                                                          index |-> i, old_name |-> old_name]),
                         !.final_data = stamped]
                 ELSE [st EXCEPT
                         !.export = PutFile(RemoveFile(@, old_name), new_name, @[old_name]),
                         !.renamed_count = @ + 1,
                         !.final_data = stamped]
         IN  FirstPass(data, base_name, digits, i + 1, next)

\* the second pass: each temporary file is renamed to its target; where the
\* target still exists os.rename replaces it (POSIX) or fails (Windows), and a
\* failure puts the old name back into the row
RECURSIVE SecondPass(_, _, _)
SecondPass(st, k, replace_ok) ==
    IF k > Len(st.temp_export_files) THEN st
    ELSE LET t == st.temp_export_files[k]
             next ==
                 IF t.target \in Names(st.export) /\ ~replace_ok
                 THEN [st EXCEPT
                         !.error_count = @ + 1,
                         !.final_data = SetAt(@, t.index, [@[t.index] EXCEPT ![3] = t.old_name])]
                 ELSE [st EXCEPT
                         !.export = PutFile(RemoveFile(@, t.temp), t.target, @[t.temp]),
                         !.renamed_count = @ + 1]
         IN  SecondPass(next, k + 1, replace_ok)

\* run_bulk_rename_existing(config): every entry of the ledger gets the base
\* name and its number; saved if anything was renamed, skipped or failed
RunBulkRenameExisting ==
    /\ ~edit.open
    /\ clock < MaxClock
    /\ LET r == get_csv_data(csv_file)
       IN  /\ ~r.none
           /\ r.data # <<>>
           /\ HeaderMatches(r.header)
           /\ \E replace_ok \in BOOLEAN :
                 LET digits == Len(Decimal(Len(r.data) + start_number - 1))
                     st0 == [export |-> export_dir, final_data |-> r.data,
                             temp_export_files |-> <<>>, renamed_count |-> 0,
                             skipped_count |-> 0, error_count |-> 0]
                     st == SecondPass(FirstPass(r.data, NewBase, digits, 1, st0), 1, replace_ok)
                     save == st.renamed_count > 0 \/ st.skipped_count > 0 \/ st.error_count > 0
                 IN  /\ export_dir' = st.export
                     /\ csv_file' = IF save THEN rewrite_csv(r.header, st.final_data) ELSE csv_file
                     /\ clock' = IF save THEN clock + 1 ELSE clock
                     /\ op' = [name |-> "run_bulk_rename_existing", pre |-> csv_file]
    /\ UNCHANGED <<import_dir, config, edit, gui>>

-----------------------------------------------------------------------------
(* The ledger reader and writer, checked under SpecCsv *)

OriginalsOf(rows) ==
    {rows[i][OriginalCol] : i \in {j \in 1..Len(rows) : Len(rows[j]) >= OriginalCol}}

\* C4 (as claimed): for every ledger file the set read_uploaded_originals returns
\* is the set of Original values of the rows get_csv_data returns for that file.
C4_OriginalsAgreeWithReader ==
    op.name = "read_uploaded_originals" =>
        op.res = OriginalsOf(get_csv_data(csv_file).data)

CountOther(rows, k) == Cardinality({i \in 1..Len(rows) : Len(rows[i]) # k})

\* C5: for a ledger file built from a non-empty header of k columns and data
\* rows, get_csv_data returns the header and exactly the data rows of k columns,
\* in file order and unchanged, and counts every other row as malformed.
C5_ReaderKeepsWellFormedRows ==
    (op.name = "get_csv_data" /\ ~op.w.done /\ op.held # <<>> /\ Head(op.held) # <<>>) =>
        LET k == Len(Head(op.held))
            rows == Tail(op.held)
        IN  /\ ~op.res.none
            /\ op.res.header = Head(op.held)
            /\ op.res.data = SelectSeq(rows, LAMBDA row : Len(row) = k)
            /\ op.res.malformed = CountOther(rows, k)

\* two well-formed rows around a malformed one, under the four-column header
C5_Witness ==
    /\ op.name = "get_csv_data"
    /\ ~op.w.done
    /\ op.held = <<HEADER, <<Ts0, NameA, Str("x"), UrlU>>, <<Ts0, NameB, Str("x")>>,
                   <<Ts0, NameC, Tricky, EmptyStr>>>>
    /\ Len(op.res.data) = 2
    /\ op.res.malformed = 1

\* C6 (as claimed): for every ledger file whose first row is not
\* Timestamp,Original,Renamed,URL, get_csv_data returns (None, []).
C6_HeaderMismatchAbortsRead ==
    (/\ op.name = "get_csv_data"
     /\ csv_file.exists
     /\ CsvParse(csv_file.text) # <<>>
     /\ Head(CsvParse(csv_file.text)) # HEADER) =>
        (op.res.none /\ op.res.data = <<>>)

Suffix(text, n) == SubSeq(text, n + 1, Len(text))

\* C7: write_to_csv with a non-empty list makes an absent or zero-length file
\* the header followed by the rows; after any other file it keeps the previous
\* content as a prefix and appends the rows and nothing else; with an empty list
\* it leaves the file as it was (absent stays absent).
C7_WriteAppends ==
    op.name = "write_to_csv" =>
        LET pre == op.w.pre
            rows == op.w.arg
        IN  IF rows = <<>> THEN csv_file = pre
            ELSE /\ csv_file.exists
                 /\ IF ~pre.exists \/ pre.text = <<>>
                    THEN CsvParse(csv_file.text) = <<HEADER>> \o rows
                    ELSE /\ SubSeq(csv_file.text, 1, Len(pre.text)) = pre.text
                         /\ CsvParse(Suffix(csv_file.text, Len(pre.text))) = rows

\* two rows appended to a file that already has content
C7_Witness ==
    /\ op.name = "write_to_csv"
    /\ op.w.pre.exists
    /\ op.w.pre.text # <<>>
    /\ Len(op.w.arg) = 2
    /\ csv_file # op.w.pre

\* C8 (as claimed): get_csv_data after write_to_csv of any list of rows to an
\* absent or zero-length ledger returns the header and exactly those rows.
C8_RoundTripAnyList ==
    (op.name = "get_csv_data" /\ op.w.done /\ write_header(op.w.pre)) =>
        (~op.res.none /\ op.res.header = HEADER /\ op.res.data = op.w.arg)

\* C8 (amended): get_csv_data after write_to_csv of a non-empty list of rows to
\* an absent or zero-length ledger returns the header and exactly those rows,
\* in order and field for field, and counts no row as malformed.
C8_RoundTripNonEmpty ==
    (op.name = "get_csv_data" /\ op.w.done /\ write_header(op.w.pre) /\ op.w.arg # <<>>) =>
        /\ ~op.res.none
        /\ op.res.header = HEADER
        /\ op.res.data = op.w.arg
        /\ op.res.malformed = 0

\* rows with a comma, a quote and a line feed in a field, and an empty URL, read back
C8_Witness ==
    /\ op.name = "get_csv_data"
    /\ op.w.done
    /\ ~op.w.pre.exists
    /\ op.w.arg = <<<<EmptyStr, NameC, Tricky, EmptyStr>>, <<Ts0, NameA, Str("x"), UrlU>>>>
    /\ op.res.data = op.w.arg

-----------------------------------------------------------------------------
(* SpecScan: the duplicate filter of both import sources, applied to every   *)
(* ledger file of the bounds and every listing of the import folder          *)

InitScan ==
    /\ \E in \in LedgerInputs(MaxScanRows) :
          /\ csv_file = in.file
          /\ op = [name |-> "file", arg |-> <<>>, res |-> <<>>, held |-> in.held, w |-> NoWrite]
    /\ import_dir \in SUBSET ImportNames
    /\ AtRest

\* Drive import: the folder's files after the download, sorted, then filtered
ScanDrive ==
    /\ op' = Op("scan_drive", import_dir, drive_files_to_process(csv_file, import_dir))
    /\ UNCHANGED <<csv_file, import_dir, export_dir, config, clock, edit, gui>>

\* Local import: the folder's files in the order os.listdir gives, then filtered
ScanLocal ==
    \E local_files \in Listings(import_dir) :
        /\ op' = Op("scan_local", local_files, local_files_to_process(csv_file, local_files))
        /\ UNCHANGED <<csv_file, import_dir, export_dir, config, clock, edit, gui>>

NextScan ==
    \/ ScanDrive
    \/ ScanLocal

SpecScan == InitScan /\ [][NextScan]_vars

-----------------------------------------------------------------------------
(* The specification of the script *)

Next ==
    \/ PlaceFile
    \/ RemoveExportFile
    \/ ChangeSettings
    \/ StartScriptDrive
    \/ StartScriptLocal
    \/ EditOpen
    \/ EditSelect
    \/ EditBack
    \/ EditRename
    \/ EditReupload
    \/ EditUrl
    \/ EditDelete
    \/ BulkUploadFromCsv
    \/ RunBulkRenameExisting

Spec == Init /\ [][Next]_vars

-----------------------------------------------------------------------------
(* The script's runs, checked under Spec *)

\* the data rows of a ledger file as csv.reader gives them
LedgerRows(f) == IF ~f.exists \/ f.text = <<>> THEN <<>> ELSE Tail(CsvParse(f.text))

\* C1: in every run of start_script, with either import source, a name that is
\* the Original of a row of the ledger as the run found it is not among the
\* files to process -- whether or not the row has a URL, whether or not the
\* export file of the row still exists.
C1_LoggedOriginalSkipped ==
    op.name = "start_script" =>
        \A X \in OriginalsOf(LedgerRows(op.pre)) : X \notin Range(op.files_to_process)

\* a scan that finds the row of a picture with no URL, whose export file is
\* gone and which is still in the import folder, and processes another picture
C1_Witness ==
    /\ op.name = "start_script"
    /\ \E i \in 1..Len(LedgerRows(op.pre)) :
          LET row == LedgerRows(op.pre)[i]
          IN  /\ row[2] = NameC
              /\ row[4] = <<>>
              /\ row[3] \notin Names(export_dir)
    /\ NameC \in import_dir
    /\ NameC \notin Range(op.files_to_process)
    /\ NameA \in Range(op.files_to_process)

\* C2: a run of start_script leaves the ledger with one more row per triple the
\* rename step returned, after the rows it had, in the order of the triples:
\* Original and Renamed of the triple, the URL upload_to_sul returned, or the
\* empty string when it returned none or uploads were skipped.
C2_OneRowPerTriple ==
    op.name = "start_script" =>
        LET triples == op.renamed_files_info
            new == [i \in 1..Len(triples) |->
                       <<triples[i][1], triples[i][2],
                         IF op.results[i].kind = "url" THEN op.results[i].url ELSE <<>>>>]
            rows == LedgerRows(csv_file)
            gained == SubSeq(rows, Len(LedgerRows(op.pre)) + 1, Len(rows))
        IN  /\ Len(op.results) = Len(triples)
            /\ SubSeq(rows, 1, Len(LedgerRows(op.pre))) = LedgerRows(op.pre)
            /\ [i \in 1..Len(gained) |-> SubSeq(gained[i], 2, 4)] = new
            /\ triples = <<>> => csv_file = op.pre

\* two pictures logged after the rows of an existing ledger, one upload giving
\* a URL and the other none
C2_Witness ==
    /\ op.name = "start_script"
    /\ op.pre.exists
    /\ Len(op.renamed_files_info) = 2
    /\ {op.results[1].kind, op.results[2].kind} = {"url", "None"}
    /\ Len(LedgerRows(csv_file)) = Len(LedgerRows(op.pre)) + 2

C29_OriginalsDistinct ==
    LET rows == LedgerRows(csv_file)
    IN  \A i, j \in 1..Len(rows) : i # j => rows[i][2] # rows[j][2]

\* a run of start_script on a ledger that had rows, with a picture of one of
\* these rows in the import folder, added a row to the ledger
C29_Witness ==
    /\ op.name = "start_script"
    /\ op.processed_for_csv # <<>>
    /\ \E i \in 1..Len(LedgerRows(op.pre)) : LedgerRows(op.pre)[i][2] \in import_dir
    /\ Len(LedgerRows(csv_file)) >= 2

-----------------------------------------------------------------------------
(* SpecGui: one upload batch of the GUI pipeline.  process_uploads_and_log    *)
(* runs on the GUI thread with the triples the rename step returned, starts   *)
(* one thread per triple and polls the result queue with root.after.          *)

\* the batches: the pictures of the import folder renamed by the dialogs, all
\* kept under their names or all named alike with the conflicts overwritten
GuiBatches ==
    {prompt_rename_images(files, NoFiles, Sorted(files), [i \in 1..Cardinality(files) |-> ans],
                          AllCopied(Cardinality(files))) :
        files \in {F \in SUBSET ImportNames : F # {} /\ Cardinality(F) <= MaxBatch},
        ans \in {[new_name_base |-> <<>>, yes_at |-> 0], [new_name_base |-> NewBase, yes_at |-> 1]}}

\* the ledger before the batch: none yet, or one with a row
GuiLedgers == {Absent, File(CsvWriteRow(HEADER) \o CsvWriteRow(<<Ts0, NameB, NameB, EmptyStr>>))}

InitGui ==
    /\ csv_file \in GuiLedgers
    /\ config \in Settings
    /\ \E batch \in GuiBatches :
          /\ export_dir \in {batch.export, RemoveFile(batch.export, batch.renamed_list[1][2])}
          /\ import_dir = {batch.renamed_list[i][1] : i \in 1..Len(batch.renamed_list)}
          /\ gui = [phase |-> "renamed", renamed_files_info |-> batch.renamed_list]
    /\ clock = 0
    /\ edit = EditClosed
    /\ op = Idle

\* a reschedule test that would stop waiting at the first result (what C10 rules out)
StillWaitingForFirst(completed_files, total_files) == completed_files = 0

\* if completed_files < total_files: self.root.after(200, check_upload_queue)
StillUploading(completed_files, total_files) == completed_files < total_files

\* process_uploads_and_log(renamed_files_info) on the GUI thread: with uploads
\* disabled or no API key the rows are written at once; otherwise one thread per
\* triple is started and check_upload_queue is scheduled.  writes records each
\* write of the ledger: the thread that wrote and the results taken by then.
ProcessUploadsAndLog ==
    /\ gui.phase = "renamed"
    /\ LET renamed_files_info == gui.renamed_files_info
           n == Len(renamed_files_info)
       IN  IF ~uploads_enabled \/ config.api_key = <<>>
           THEN LET processed_for_csv ==
                        [i \in 1..n |-> <<Now, renamed_files_info[i][1], renamed_files_info[i][2],
                                          EmptyStr>>]
                IN  /\ csv_file' = write_to_csv(csv_file, processed_for_csv)
                    /\ gui' = [phase |-> "done", renamed_files_info |-> renamed_files_info,
                               pre |-> csv_file, threads |-> <<>>, upload_queue |-> <<>>,
                               total_files |-> 0, completed_files |-> 0,
                               processed_for_csv |-> processed_for_csv,
                               writes |-> <<[by |-> "gui", taken |-> 0]>>]
                    /\ clock' = clock + 1
           ELSE /\ gui' = [phase |-> "uploading", renamed_files_info |-> renamed_files_info,
                           pre |-> csv_file,
                           threads |-> [i \in 1..n |-> [pc |-> "started", url |-> <<>>,
                                                         error |-> FALSE]],
                           upload_queue |-> <<>>, total_files |-> n, completed_files |-> 0,
                           processed_for_csv |-> <<>>, writes |-> <<>>]
                /\ UNCHANGED <<csv_file, clock>>
    /\ UNCHANGED <<import_dir, export_dir, config, edit, op>>

\* upload_to_sul_thread, the upload: url is what upload_to_sul returns (None is
\* the empty url), error is set when it raised
WorkerUpload(i) ==
    /\ gui.phase = "uploading"
    /\ gui.threads[i].pc = "started"
    /\ \E answer \in {"url", "None"} :
          LET r == upload_to_sul(export_dir, gui.renamed_files_info[i][2], config.api_key, answer)
          IN  gui' = [gui EXCEPT !.threads[i] =
                         [pc |-> "uploaded", url |-> UrlOrEmpty(r),
                          error |-> r.kind \in {"ValueError", "FileNotFoundError"}]]
    /\ UNCHANGED <<csv_file, import_dir, export_dir, config, clock, edit, op>>

\* a worker that would put no result when its upload raised (what C30 rules out)
WorkerPutUnlessError(i) ==
    /\ gui.phase = "uploading"
    /\ gui.threads[i].pc = "uploaded"
    /\ gui' = [gui EXCEPT
                 !.threads[i].pc = "put",
                 !.upload_queue = IF gui.threads[i].error THEN @
                                  ELSE Append(@, [file |-> gui.renamed_files_info[i][2],
                                                  url |-> gui.threads[i].url,
                                                  error |-> gui.threads[i].error])]
    /\ UNCHANGED <<csv_file, import_dir, export_dir, config, clock, edit, op>>

\* upload_to_sul_thread, its last statement: result_queue.put({file, url, error})
WorkerPut(i) ==
    /\ gui.phase = "uploading"
    /\ gui.threads[i].pc = "uploaded"
    /\ gui' = [gui EXCEPT
                 !.threads[i].pc = "put",
                 !.upload_queue = Append(@, [file |-> gui.renamed_files_info[i][2],
                                             url |-> gui.threads[i].url,
                                             error |-> gui.threads[i].error])]
    /\ UNCHANGED <<csv_file, import_dir, export_dir, config, clock, edit, op>>

\* check_upload_queue, the lookup of a result's original name: the first triple
\* whose file has the result's name, "" when there is none
OriginalOfResult(renamed_files_info, new_name) ==
    LET hits == {i \in 1..Len(renamed_files_info) : renamed_files_info[i][2] = new_name}
    IN  IF hits = {} THEN EmptyStr
        ELSE renamed_files_info[CHOOSE i \in hits : \A j \in hits : i <= j][1]

\* check_upload_queue, the loop over upload_queue.get_nowait(): one row per result
RowsOfResults(renamed_files_info, results) ==
    [k \in 1..Len(results) |->
        <<Now, OriginalOfResult(renamed_files_info, results[k].file), results[k].file,
          results[k].url>>]

\* check_upload_queue on the GUI thread: the results in the queue are taken, then
\* either the next check is scheduled or the rows are written to the ledger
CheckUploadQueue ==
    /\ gui.phase = "uploading"
    /\ LET completed_files == gui.completed_files + Len(gui.upload_queue)
           processed_for_csv ==
               gui.processed_for_csv \o RowsOfResults(gui.renamed_files_info, gui.upload_queue)
       IN  IF StillUploading(completed_files, gui.total_files)
           THEN /\ gui' = [gui EXCEPT !.upload_queue = <<>>,
                                      !.completed_files = completed_files,
                                      !.processed_for_csv = processed_for_csv]
                /\ clock' = IF gui.upload_queue = <<>> THEN clock ELSE clock + 1
                /\ UNCHANGED csv_file
           ELSE /\ csv_file' = write_to_csv(csv_file, processed_for_csv)
                /\ gui' = [gui EXCEPT !.phase = "done", !.upload_queue = <<>>,
                                      !.completed_files = completed_files,
                                      !.processed_for_csv = processed_for_csv,
                                      !.writes = Append(@, [by |-> "gui",
                                                            taken |-> completed_files])]
                /\ clock' = clock + 1
    /\ UNCHANGED <<import_dir, export_dir, config, edit, op>>

NextGui ==
    \/ ProcessUploadsAndLog
    \/ \E i \in 1..MaxBatch : i <= Len(gui.renamed_files_info) /\ WorkerUpload(i)
    \/ \E i \in 1..MaxBatch : i <= Len(gui.renamed_files_info) /\ WorkerPut(i)
    \/ CheckUploadQueue

SpecGui == InitGui /\ [][NextGui]_vars

\* C10: while the workers of a batch run the ledger is as it was when the batch
\* began and nothing has written it; when the batch is over the ledger has been
\* written once, by the GUI thread, after as many results were taken from the
\* queue as there are workers, every worker having put its one result.
C10_LedgerWrittenOnceAfterAllResults ==
    /\ gui.phase = "uploading" => (csv_file = gui.pre /\ gui.writes = <<>>)
    /\ (gui.phase = "done" /\ gui.total_files > 0) =>
          /\ gui.writes = <<[by |-> "gui", taken |-> Len(gui.threads)]>>
          /\ gui.total_files = Len(gui.renamed_files_info)
          /\ Len(gui.threads) = Len(gui.renamed_files_info)
          /\ \A i \in 1..Len(gui.threads) : gui.threads[i].pc = "put"
          /\ csv_file = write_to_csv(gui.pre, gui.processed_for_csv)
          /\ Len(gui.processed_for_csv) = Len(gui.threads)

\* a batch of three workers whose results were taken by more than one check,
\* written to a ledger that had a row
C10_Witness ==
    /\ gui.phase = "done"
    /\ Len(gui.threads) = 3
    /\ clock >= 2
    /\ gui.pre.exists
    /\ Len(LedgerRows(csv_file)) = 4

\* C27 (as claimed): when a batch of the GUI pipeline is over, the logged rows
\* are, in some order, one row per entry with the Original that entry was
\* copied from, its file name and the URL its own upload returned, also when
\* two entries have the same renamed file name.
C27_ResultsAttributedToOwnRows ==
    (gui.phase = "done" /\ gui.total_files > 0) =>
        LET info == gui.renamed_files_info
            rows == gui.processed_for_csv
        IN  /\ Len(rows) = Len(info)
            /\ \E order \in Listings(1..Len(info)) :
                  \A k \in 1..Len(rows) :
                     /\ rows[k][2] = info[order[k]][1]
                     /\ rows[k][3] = info[order[k]][2]
                     /\ rows[k][4] = gui.threads[order[k]].url

-----------------------------------------------------------------------------
(* SpecGuiLive: the upload batch of SpecGui under its scheduling.  Every       *)
(* started thread runs on: its upload call returns or raises, then it puts its *)
(* result.  The Tk main loop runs every callback scheduled with root.after.    *)

GuiFairness ==
    /\ \A i \in 1..MaxBatch : WF_vars(i <= Len(gui.renamed_files_info) /\ WorkerUpload(i))
    /\ \A i \in 1..MaxBatch : WF_vars(i <= Len(gui.renamed_files_info) /\ WorkerPut(i))
    /\ WF_vars(CheckUploadQueue)

SpecGuiLive == InitGui /\ [][NextGui]_vars /\ GuiFairness

\* the batch is over: as many results counted as workers, the ledger written
\* once, no further check scheduled
BatchCompleted ==
    /\ gui.phase = "done"
    /\ gui.completed_files = gui.total_files
    /\ Len(gui.processed_for_csv) = gui.total_files
    /\ Len(gui.writes) = 1
    /\ csv_file = write_to_csv(gui.pre, gui.processed_for_csv)
    /\ ~ENABLED CheckUploadQueue

\* C30: in a batch of the GUI pipeline with n workers, every upload call
\* returning or raising, the batch eventually completes: the polling callback
\* eventually counts n results, writes the ledger and stops rescheduling itself.
C30_BatchEventuallyCompletes ==
    (gui.phase = "uploading") ~> BatchCompleted

\* a batch of two workers is over, one of its uploads having raised and the
\* other having returned a URL
C30_Witness ==
    /\ BatchCompleted
    /\ gui.total_files = 2
    /\ \E i, j \in 1..2 : gui.threads[i].error /\ gui.threads[j].url # <<>>

-----------------------------------------------------------------------------
(* Upload worker threads and the loops that collect their results: the GUI's  *)
(* bulk upload (bulk_upload_from_csv_thread); EditWindow's re-upload of the   *)
(* selected entries and the problem solver's quick fix run the same loop.     *)

\* the most data rows of the ledger a bulk upload of the GUI starts from
MaxBulk == 3

\* the most worker threads of SpecWorker
MaxWorkers == 2

\* threading.Thread(target=upload_to_sul_thread, args=(file_path, api_key, upload_queue)).start()
StartedThread(file, api_key) ==
    [file |-> file, api_key |-> api_key, pc |-> "started", url |-> <<>>, error |-> FALSE,
     puts |-> 0]

\* upload_to_sul_thread, up to its last statement: url is what upload_to_sul
\* returned (None is the empty url), error is set when it raised
ThreadUpload(i) ==
    /\ gui.phase \in {"get", "empty", "workers"}
    /\ gui.threads[i].pc = "started"
    /\ \E answer \in {"url", "None"} :
          LET t == gui.threads[i]
              r == upload_to_sul(export_dir, t.file, t.api_key, answer)
          IN  gui' = [gui EXCEPT !.threads[i] =
                         [t EXCEPT !.pc = "uploaded", !.url = UrlOrEmpty(r),
                                   !.error = r.kind \in {"ValueError", "FileNotFoundError"}]]
    /\ UNCHANGED <<csv_file, import_dir, export_dir, config, clock, edit, op>>

\* a worker without the try/except around upload_to_sul: the exception would
\* end it before its put (what C12 rules out)
ThreadPutUnlessRaised(i) ==
    /\ gui.phase \in {"get", "empty", "workers"}
    /\ gui.threads[i].pc = "uploaded"
    /\ LET t == gui.threads[i]
       IN  IF t.error
           THEN gui' = [gui EXCEPT !.threads[i].pc = "put"]
           ELSE gui' = [gui EXCEPT
                          !.threads[i].pc = "put",
                          !.threads[i].puts = @ + 1,
                          !.upload_queue = Append(@, [file |-> t.file, url |-> t.url,
                                                      error |-> t.error])]
    /\ UNCHANGED <<csv_file, import_dir, export_dir, config, clock, edit, op>>

\* upload_to_sul_thread, its last statement: result_queue.put({file, url, error})
ThreadPut(i) ==
    /\ gui.phase \in {"get", "empty", "workers"}
    /\ gui.threads[i].pc = "uploaded"
    /\ LET t == gui.threads[i]
       IN  gui' = [gui EXCEPT
                     !.threads[i].pc = "put",
                     !.threads[i].puts = @ + 1,
                     !.upload_queue = Append(@, [file |-> t.file, url |-> t.url,
                                                 error |-> t.error])]
    /\ UNCHANGED <<csv_file, import_dir, export_dir, config, clock, edit, op>>

\* the worker function has returned: the thread is no longer alive
ThreadEnd(i) ==
    /\ gui.phase \in {"get", "empty", "workers"}
    /\ gui.threads[i].pc = "put"
    /\ gui' = [gui EXCEPT !.threads[i].pc = "ended"]
    /\ UNCHANGED <<csv_file, import_dir, export_dir, config, clock, edit, op>>

\* t.is_alive()
IsAlive(t) == t.pc # "ended"

\* the rows of the ledgers a bulk upload starts from: two entries renamed to the
\* same file and one other without a URL, one entry with a URL
NameX == NewBase \o <<".", "jpg">>

BulkPool ==
    { <<Ts0, NameA, NameX, EmptyStr>>,
      <<Ts0, NameB, NameX, EmptyStr>>,
      <<Ts0, NameC, NameC, EmptyStr>>,
      <<Ts0, NameB, NameB, UrlU>> }

BulkLedgers ==
    {Absent} \cup {rewrite_csv(HEADER, d) : d \in SeqsUpTo(BulkPool, MaxBulk)}

\* the export folder: every renamed file, or all but one
BulkExports ==
    LET all == PutFile(PutFile(PutFile(NoFiles, NameX, NameA), NameC, NameC), NameB, NameB)
    IN  {all, RemoveFile(all, NameC)}

InitBulkGui ==
    /\ csv_file \in BulkLedgers
    /\ config \in Settings
    /\ export_dir \in BulkExports
    /\ import_dir = {}
    /\ clock = 0
    /\ edit = EditClosed
    /\ op = Idle
    /\ gui = [phase |-> "idle", threads |-> <<>>]

\* bulk_upload_from_csv_thread, the loop over data: the rows without a URL whose
\* export file exists
ItemsToUpload(data) ==
    LET idxs == SelectSeq([i \in 1..Len(data) |-> i],
                          LAMBDA i : data[i][4] = <<>> /\ data[i][3] \in Names(export_dir))
    IN  [k \in 1..Len(idxs) |-> [index |-> idxs[k], renamed_name |-> data[idxs[k]][3]]]

\* the function ends without a thread started and without a write
BulkEnded == [phase |-> "done", threads |-> <<>>, upload_queue |-> <<>>, writes |-> 0]

\* bulk_upload_from_csv_thread(config) up to the start of the threads: it ends
\* at once when uploads are disabled, no key is set, the ledger cannot be read
\* or has no rows, the header is another one, or no row needs an upload
BulkUploadThreadStart ==
    /\ gui.phase = "idle"
    /\ LET r == get_csv_data(csv_file)
       IN  IF ~uploads_enabled \/ config.api_key = <<>>
           THEN gui' = BulkEnded
           ELSE IF r.none \/ r.data = <<>> \/ ~HeaderMatches(r.header)
           THEN gui' = BulkEnded
           ELSE IF ItemsToUpload(r.data) = <<>>
           THEN gui' = BulkEnded
           ELSE LET items_to_upload == ItemsToUpload(r.data)
                IN  gui' = [phase |-> "get", pre |-> r.data, header |-> r.header,
                            data |-> r.data, items_to_upload |-> items_to_upload,
                            threads |-> [k \in 1..Len(items_to_upload) |->
                                            StartedThread(items_to_upload[k].renamed_name,
                                                          config.api_key)],
                            upload_queue |-> <<>>, total_files |-> Len(items_to_upload),
                            completed_files |-> 0, updated_indices |-> <<>>, writes |-> 0]
    /\ UNCHANGED <<csv_file, import_dir, export_dir, config, clock, edit, op>>

\* next((item["index"] for item in items_to_upload
\*       if item["renamed_name"] == result["file"]), -1)
OriginalIndex(items_to_upload, file) ==
    LET hits == {k \in 1..Len(items_to_upload) : items_to_upload[k].renamed_name = file}
    IN  IF hits = {} THEN -1
        ELSE items_to_upload[CHOOSE k \in hits : \A j \in hits : k <= j].index

\* after the loop: if updated_indices, the ledger is rewritten from header and data
BulkSave(g) ==
    /\ csv_file' = IF g.updated_indices # <<>> THEN rewrite_csv(g.header, g.data) ELSE csv_file
    /\ gui' = [g EXCEPT !.phase = "done",
                        !.writes = IF g.updated_indices # <<>> THEN @ + 1 ELSE @]

\* the collecting loop, upload_queue.get(timeout=0.2) returning a result: a URL is
\* stored in the row the result's file name maps to, with a new timestamp
BulkGet ==
    /\ gui.phase = "get"
    /\ gui.upload_queue # <<>>
    /\ LET result == Head(gui.upload_queue)
           original_index == OriginalIndex(gui.items_to_upload, result.file)
           stored == original_index # -1 /\ result.url # <<>>
           g == [gui EXCEPT
                   !.upload_queue = Tail(@),
                   !.completed_files = @ + 1,
                   !.data = IF stored
                            THEN SetAt(@, original_index,
                                       <<Now, @[original_index][2], @[original_index][3],
                                         result.url>>)
                            ELSE @,
                   !.updated_indices = IF stored THEN Append(@, original_index) ELSE @]
       IN  /\ clock' = IF stored THEN clock + 1 ELSE clock
           /\ IF g.completed_files < g.total_files
              THEN gui' = g /\ UNCHANGED csv_file
              ELSE BulkSave(g)
    /\ UNCHANGED <<import_dir, export_dir, config, edit, op>>

\* upload_queue.get(timeout=0.2) raising queue.Empty: nothing was in the queue
BulkGetEmpty ==
    /\ gui.phase = "get"
    /\ gui.upload_queue = <<>>
    /\ gui' = [gui EXCEPT !.phase = "empty"]
    /\ UNCHANGED <<csv_file, import_dir, export_dir, config, clock, edit, op>>

\* except queue.Empty: if not any(t.is_alive() for t in threads): break
\* otherwise time.sleep(0.1) and the loop goes on
BulkCheckAlive ==
    /\ gui.phase = "empty"
    /\ IF \E i \in 1..Len(gui.threads) : IsAlive(gui.threads[i])
       THEN gui' = [gui EXCEPT !.phase = "get"] /\ UNCHANGED csv_file
       ELSE BulkSave(gui)
    /\ UNCHANGED <<import_dir, export_dir, config, clock, edit, op>>

NextBulkGui ==
    \/ BulkUploadThreadStart
    \/ \E i \in 1..MaxBulk : i <= Len(gui.threads) /\ ThreadUpload(i)
    \/ \E i \in 1..MaxBulk : i <= Len(gui.threads) /\ ThreadPut(i)
    \/ \E i \in 1..MaxBulk : i <= Len(gui.threads) /\ ThreadEnd(i)
    \/ BulkGet
    \/ BulkGetEmpty
    \/ BulkCheckAlive

SpecBulkGui == InitBulkGui /\ [][NextBulkGui]_vars

\* C11 (as claimed): in every interleaving, when the collecting loop is over and
\* the ledger has been rewritten, the result of every started worker has been
\* taken from the queue and every URL a worker obtained is in the row of its entry.
C11_RewriteAfterEveryResult ==
    (gui.phase = "done" /\ gui.writes > 0) =>
        /\ gui.completed_files = Len(gui.threads)
        /\ gui.upload_queue = <<>>
        /\ \A k \in 1..Len(gui.threads) :
              gui.threads[k].url # <<>> =>
                  gui.data[gui.items_to_upload[k].index][4] = gui.threads[k].url

\* C13 (as claimed): when a bulk upload is over, uploads were attempted for exactly
\* the rows that had no URL and whose export file exists; every row that had a
\* URL is as it was; a row whose upload gave no URL is as it was, with its empty
\* URL and its old timestamp; a rewritten ledger holds these rows.
C13_BulkUploadOnlyFillsMissingUrls ==
    (gui.phase = "done" /\ Len(gui.threads) > 0) =>
        LET pre == gui.pre
            data == gui.data
            items == gui.items_to_upload
        IN  /\ {items[k].index : k \in 1..Len(items)} =
                   {i \in 1..Len(pre) : pre[i][4] = <<>> /\ pre[i][3] \in Names(export_dir)}
            /\ Len(gui.threads) = Len(items)
            /\ \A i \in 1..Len(pre) : pre[i][4] # <<>> => data[i] = pre[i]
            /\ \A k \in 1..Len(items) :
                  gui.threads[k].url = <<>> => data[items[k].index] = pre[items[k].index]
            /\ gui.writes > 0 => LedgerRows(csv_file) = data

-----------------------------------------------------------------------------
(* SpecBulkShared: the bulk upload of SpecBulkGui with the GUI thread free to  *)
(* finish a pipeline batch while the worker thread runs: run_in_thread starts  *)
(* the worker and returns, no button is disabled meanwhile.                    *)

\* check_upload_queue of a pipeline batch of one picture, its last step:
\* write_to_csv(csv_path, processed_for_csv), while the bulk upload is collecting
PipelineAppend ==
    /\ gui.phase \in {"get", "empty"}
    /\ op = Idle
    /\ \E url \in {EmptyStr, UrlOf(NameA)} :
          LET row == <<Now, NameA, NameA, url>>
          IN  /\ csv_file' = write_to_csv(csv_file, <<row>>)
              /\ op' = [name |-> "write_to_csv", row |-> row]
    /\ clock' = clock + 1
    /\ UNCHANGED <<import_dir, export_dir, config, edit, gui>>

NextBulkShared ==
    \/ NextBulkGui
    \/ PipelineAppend

SpecBulkShared == InitBulkGui /\ [][NextBulkShared]_vars

\* C28 (as claimed): a row the pipeline appended to the ledger while the bulk
\* upload worker was running is still in the ledger when the worker is over,
\* after its final rewrite.
C28_WorkerRewriteKeepsLaterSaves ==
    (gui.phase = "done" /\ op.name = "write_to_csv") =>
        \E i \in 1..Len(LedgerRows(csv_file)) : LedgerRows(csv_file)[i] = op.row

-----------------------------------------------------------------------------
(* SpecWorker: upload_to_sul_thread started with any file path and any key,   *)
(* the file in the export folder or not; nothing takes from the queue         *)

WorkerArgs == {StartedThread(file, api_key) : file \in {NameA, NameB}, api_key \in {EmptyStr, ApiKey}}

InitWorker ==
    /\ csv_file = Absent
    /\ import_dir = {}
    /\ export_dir \in {NoFiles, PutFile(NoFiles, NameA, NameA),
                       PutFile(PutFile(NoFiles, NameA, NameA), NameB, NameB)}
    /\ config \in Settings
    /\ clock = 0
    /\ edit = EditClosed
    /\ op = Idle
    /\ \E threads \in SeqsUpTo(WorkerArgs, MaxWorkers) :
          /\ threads # <<>>
          /\ gui = [phase |-> "workers", threads |-> threads, upload_queue |-> <<>>]

NextWorker ==
    \/ \E i \in 1..MaxWorkers : i <= Len(gui.threads) /\ ThreadUpload(i)
    \/ \E i \in 1..MaxWorkers : i <= Len(gui.threads) /\ ThreadPut(i)
    \/ \E i \in 1..MaxWorkers : i <= Len(gui.threads) /\ ThreadEnd(i)

SpecWorker == InitWorker /\ [][NextWorker]_vars

\* C12: a worker has put no result before its upload returned or raised and
\* exactly one from its put on, also once it has ended; the queue holds one
\* record per worker that has put, with the worker's file name, the URL if the
\* upload gave one and the error if it raised.
C12_WorkerPutsExactlyOnce ==
    LET threads == gui.threads
        reported == {i \in 1..Len(threads) : threads[i].pc \in {"put", "ended"}}
    IN  /\ \A i \in 1..Len(threads) : threads[i].puts = IF i \in reported THEN 1 ELSE 0
        /\ Len(gui.upload_queue) = Cardinality(reported)
        /\ \A i \in reported :
              \E k \in 1..Len(gui.upload_queue) :
                  gui.upload_queue[k] = [file |-> threads[i].file, url |-> threads[i].url,
                                         error |-> threads[i].error]
        /\ \A i \in reported : ~(threads[i].error /\ threads[i].url # <<>>)

\* two workers that have ended, one with a URL and one whose upload raised
\* for want of a key
C12_Witness ==
    /\ Len(gui.threads) = 2
    /\ \A i \in 1..2 : gui.threads[i].pc = "ended"
    /\ \E i \in 1..2 : gui.threads[i].url # <<>>
    /\ \E i \in 1..2 : gui.threads[i].error /\ gui.threads[i].api_key = <<>>
    /\ Len(gui.upload_queue) = 2

-----------------------------------------------------------------------------
(* SpecRename: the rename/copy step of the pipeline (interactive, bulk of the  *)
(* CLI, bulk of the GUI) applied once to import and export folders of the      *)
(* bounds, with every answer of the user and every outcome of the copies       *)

\* the most files of the import folder
MaxFiles == 11

\* the most files the interactive rename is given
MaxIndividual == 2

\* the largest suffix _N of the files the export folder starts with
MaxSuffix == 10

\* the largest suffix _conflict_N of the files the export folder starts with
MaxConflict == 5

\* the k-th picture of the import folder: 0.jpg .. 9.jpg, a0.jpg, a1.jpg ...
PoolName(k) ==
    IF k <= 10 THEN <<Digit(k - 1), ".", "jpg">> ELSE <<"a">> \o Decimal(k - 11) \o <<".", "jpg">>

\* a picture without an extension
NameNoExt == Str("y")

RenameImports ==
    {{PoolName(k) : k \in 1..n} : n \in 0..MaxFiles} \cup {{NameC, NameNoExt}}

\* what a file that was in the export folder before the step holds
Old == Str("old")

Folder(names) == [n \in names |-> Old]

\* x.jpg, x_1.jpg, x_2.jpg ...: the names the interactive rename tries for ".jpg"
\* pictures named x
SuffixName(j) ==
    IF j = 0 THEN NameX ELSE NewBase \o <<"_">> \o Decimal(j) \o <<".", "jpg">>

\* X.jpg, X_conflict_1.jpg ...: the names the bulk rename tries for a base X
ConflictName(base, c) ==
    IF c = 0 THEN base \o <<".", "jpg">>
    ELSE base \o <<"_", "conflict", "_">> \o Decimal(c) \o <<".", "jpg">>

\* the export folder before the step: empty; x.jpg with the suffixed names up
\* to some N, or with all of them but one; the first name of a bulk rename
\* (x01.jpg for the CLI, x1.jpg for the GUI) with its conflict names up to some N
RenameExports ==
    {NoFiles}
    \cup {Folder({SuffixName(j) : j \in 0..k}) : k \in 0..MaxSuffix}
    \cup {Folder({SuffixName(j) : j \in (0..MaxSuffix) \ {h}}) : h \in 1..MaxSuffix}
    \cup {Folder({ConflictName(NewBase \o b, c) : c \in 0..k}) :
              b \in {<<"0", "1">>, <<"1">>}, k \in 0..MaxConflict}

\* the answers of the user in SpecRename: those of AnswerPool, and y at the third
\* offer to overwrite
RenameAnswers == AnswerPool \cup {[new_name_base |-> NewBase, yes_at |-> 3]}

\* shutil.copy2 of all the files succeeds, or of all but one
CopyOutcomes(n) == {AllCopied(n)} \cup {[i \in 1..n |-> i # j] : j \in 1..n}

\* the list the import source hands over: the files of the import folder, and
\* possibly one that is no longer there
Reverse(q) == [i \in 1..Len(q) |-> q[Len(q) + 1 - i]]

FilesToProcess(import) == {Reverse(Sorted(import)), Reverse(Sorted(import \cup {NameB}))}

InitRename ==
    /\ csv_file = Absent
    /\ import_dir \in RenameImports
    /\ export_dir \in RenameExports
    /\ config = [api_key |-> EmptyStr, enable_upload |-> FALSE]
    /\ clock = 0
    /\ edit = EditClosed
    /\ gui = GuiIdle
    /\ op = Idle

\* a step that would move the files instead of copying them (what C18 rules out)
SourcesAfterMove(import, renamed_list) ==
    import \ {renamed_list[i][1] : i \in 1..Len(renamed_list)}

\* shutil.copy2(src_path, dest_path) reads its source: the import folder after
\* the step is the import folder before it
SourcesAfterCopy(import, renamed_list) == import

\* what a rename step leaves: the folders, and in op what it was given and returned
RenameDone(name, files_to_process, answers, copy_ok, r) ==
    /\ export_dir' = r.export
    /\ import_dir' = SourcesAfterCopy(import_dir, r.renamed_list)
    /\ op' = [name |-> name, import |-> import_dir, export |-> export_dir,
              files_to_process |-> files_to_process, answers |-> answers,
              copy_ok |-> copy_ok, renamed_list |-> r.renamed_list]
    /\ UNCHANGED <<csv_file, config, clock, edit, gui>>

RenameIndividual ==
    /\ op.name = "idle"
    /\ \E files_to_process \in FilesToProcess(import_dir) :
          /\ Len(files_to_process) <= MaxIndividual
          /\ \E answers \in [1..Len(files_to_process) -> RenameAnswers],
                copy_ok \in CopyOutcomes(Len(files_to_process)) :
                RenameDone("prompt_rename_images", files_to_process, answers, copy_ok,
                           prompt_rename_images(import_dir, export_dir, files_to_process,
                                                answers, copy_ok))

RenameBulkCli ==
    /\ op.name = "idle"
    /\ \E files_to_process \in FilesToProcess(import_dir),
          copy_ok \in CopyOutcomes(Cardinality(import_dir) + 1) :
          /\ files_to_process # <<>>
          /\ RenameDone("bulk_rename_files", files_to_process, <<>>, copy_ok,
                        bulk_rename_files(import_dir, export_dir, files_to_process, NewBase,
                                          copy_ok))

RenameBulkGui ==
    /\ op.name = "idle"
    /\ \E files_to_process \in FilesToProcess(import_dir),
          copy_ok \in CopyOutcomes(Cardinality(import_dir) + 1) :
          /\ files_to_process # <<>>
          /\ RenameDone("bulk_rename_new_files_thread", files_to_process, <<>>, copy_ok,
                        bulk_rename_new_files_thread(import_dir, export_dir, files_to_process,
                                                     NewBase, copy_ok))

NextRename ==
    \/ RenameIndividual
    \/ RenameBulkCli
    \/ RenameBulkGui

SpecRename == InitRename /\ [][NextRename]_vars

\* the name the interactive rename first gives a file, and the base of its
\* suffixed names
FirstName(original_filename, ans) ==
    IF ans.new_name_base # <<>> THEN ans.new_name_base \o SplitExt(original_filename)
    ELSE original_filename

SuffixedName(original_filename, ans, j) ==
    (IF ans.new_name_base # <<>> THEN ans.new_name_base ELSE SplitBase(original_filename))
        \o <<"_">> \o Decimal(j) \o SplitExt(original_filename)

\* C14 (as claimed): in interactive rename, when the destination name of the first
\* file exists in the export folder and the user declines every offer to
\* overwrite, the file is copied under the first of base_1 .. base_10 that is not
\* in the export folder, and is skipped, with no triple, only when all ten are.
C14_FirstFreeOfTenSuffixes ==
    (/\ op.name = "prompt_rename_images"
     /\ op.files_to_process # <<>>) =>
        LET original_filename == Sorted(Range(op.files_to_process))[1]
            ans == op.answers[1]
            free == {j \in 1..10 : SuffixedName(original_filename, ans, j) \notin Names(op.export)}
        IN  (/\ original_filename \in op.import
             /\ op.copy_ok[1]
             /\ ans.yes_at = 0
             /\ FirstName(original_filename, ans) \in Names(op.export)) =>
                IF free # {}
                THEN /\ op.renamed_list # <<>>
                     /\ op.renamed_list[1] =
                            <<original_filename,
                              SuffixedName(original_filename, ans,
                                           CHOOSE j \in free : \A h \in free : j <= h)>>
                ELSE \A i \in 1..Len(op.renamed_list) : op.renamed_list[i][1] # original_filename

\* a bulk rename, of the CLI or of the GUI, of n files that are all in the
\* import folder, into an empty export folder, every copy succeeding
BulkRenameUnhindered ==
    /\ op.name \in {"bulk_rename_files", "bulk_rename_new_files_thread"}
    /\ Range(op.files_to_process) \subseteq op.import
    /\ op.export = NoFiles
    /\ \A i \in 1..Len(op.files_to_process) : op.copy_ok[i]

\* C15 (as claimed): in a bulk rename of n new files with base B, in the CLI and
\* in the GUI, the i-th of the sorted original names gets the name B, then i
\* zero-padded to the number of decimal digits of n, then its extension.
C15_PaddedToDigitsOfCount ==
    BulkRenameUnhindered =>
        LET sorted == Sorted(Range(op.files_to_process))
            n == Len(op.files_to_process)
        IN  /\ Len(op.renamed_list) = n
            /\ \A i \in 1..n :
                  op.renamed_list[i] =
                      <<sorted[i], NewBase \o Padded(i, Len(Decimal(n))) \o SplitExt(sorted[i])>>

\* the base of the name a bulk rename generates for the first of the sorted files
FirstBulkBase ==
    NewBase \o Padded(start_number,
                      IF op.name = "bulk_rename_files" THEN num_digits
                      ELSE Len(Decimal(Len(op.files_to_process) + start_number - 1)))

ConflictNameOf(original_filename, c) ==
    FirstBulkBase \o <<"_", "conflict", "_">> \o Decimal(c) \o SplitExt(original_filename)

\* C16 (as claimed): a bulk rename of new files leaves every file that was in the
\* export folder as it was, and when the name X generated for the first file is
\* taken, the file is written under the first of X_conflict_1, X_conflict_2, ...
\* that is free.
C16_ConflictNameInsteadOfOverwrite ==
    (/\ op.name \in {"bulk_rename_files", "bulk_rename_new_files_thread"}
     /\ Range(op.files_to_process) \subseteq op.import
     /\ \A i \in 1..Len(op.files_to_process) : op.copy_ok[i]) =>
        LET original_filename == Sorted(Range(op.files_to_process))[1]
            free == {c \in 1..(MaxConflict + 1) :
                        ConflictNameOf(original_filename, c) \notin Names(op.export)}
        IN  /\ \A n \in Names(op.export) :
                  n \in Names(export_dir) /\ export_dir[n] = op.export[n]
            /\ FirstBulkBase \o SplitExt(original_filename) \in Names(op.export) =>
                  /\ op.renamed_list # <<>>
                  /\ op.renamed_list[1] =
                         <<original_filename,
                           ConflictNameOf(original_filename,
                                          CHOOSE c \in free : \A h \in free : c <= h)>>

\* the triples of a bulk rename are one per file, in sorted order of the original
\* names, under pairwise distinct names without a conflict suffix
OneCleanNamePerFile ==
    LET sorted == Sorted(Range(op.files_to_process))
        n == Len(op.files_to_process)
    IN  /\ Len(op.renamed_list) = n
        /\ \A i \in 1..n : op.renamed_list[i][1] = sorted[i]
        /\ \A i, j \in 1..n : i # j => op.renamed_list[i][2] # op.renamed_list[j][2]
        /\ \A i \in 1..n : ~Contains(op.renamed_list[i][2], "conflict")
        /\ \A i \in 1..n : /\ op.renamed_list[i][2] \in Names(export_dir)
                           /\ export_dir[op.renamed_list[i][2]] = sorted[i]
        /\ Cardinality(Names(export_dir)) = n

-----------------------------------------------------------------------------
(* SpecUpload: upload_to_sul called once with any key, any file and any        *)
(* outcome of the request.  The result is what the call returned or raised    *)
(* and the number of HTTP requests it made.                                   *)

\* the HTTP statuses the service may answer with; res.raise_for_status() raises
\* requests.exceptions.HTTPError for 400 and above
Statuses == {200, 201, 404, 500}

\* the body of the response as res.json() gives it: not JSON at all, an object
\* with a url, an object with a url that is null, an object without one, or
\* JSON that is no object (a list, a number)
Bodies == {"malformed", "url", "url_null", "no_url", "not_object"}

\* what open(file_path, "rb") and requests.post(..., timeout=60) may do: open
\* raises IOError; post raises Timeout, ConnectionError, another
\* RequestException (TooManyRedirects, ChunkedEncodingError ...), another
\* exception; or post returns a response
NetOutcomes ==
    {[kind |-> k, status |-> 0, body |-> "none"] :
         k \in {"IOError", "Timeout", "ConnectionError", "RequestException", "Exception"}}
    \cup {[kind |-> "response", status |-> st, body |-> b] : st \in Statuses, b \in Bodies}

Raised(exception, posts) == [kind |-> exception, url |-> <<>>, posts |-> posts]

Returned(url, posts) ==
    [kind |-> IF url = <<>> THEN "None" ELSE "url", url |-> url, posts |-> posts]

\* a call that would not test its arguments before the request (what C20 rules out)
NoPrecondition(export, filename, api_key) == "ok"

\* if not api_key: raise ValueError; if not os.path.exists(file_path): raise
\* FileNotFoundError
Precondition(export, filename, api_key) ==
    IF api_key = <<>> THEN "ValueError"
    ELSE IF filename \notin Names(export) THEN "FileNotFoundError"
    ELSE "ok"

\* the except clauses of upload_to_sul for an exception raised by open or by
\* requests.post, where res is not bound: Timeout and ConnectionError return
\* None; in the RequestException clause res.json() raises UnboundLocalError,
\* the bare except that catches it reads res.status_code and raises it again,
\* out of the function; IOError and Exception return None
AfterException(kind, posts) ==
    IF kind = "RequestException" THEN Raised("UnboundLocalError", posts)
    ELSE Returned(<<>>, posts)

\* the body of the with statement once requests.post has returned res:
\* res.json() (response_json stays {} when the body is not JSON),
\* res.raise_for_status(), then the url field; res is bound, so every except
\* clause returns None
AfterResponse(filename, net) ==
    IF net.status >= 400 THEN Returned(<<>>, 1)                     \* HTTPError
    ELSE IF net.body = "url" THEN Returned(UrlOf(filename), 1)      \* return url
    ELSE IF net.body = "url_null" THEN Returned(<<>>, 1)            \* return url, which is None
    ELSE IF net.body = "not_object" THEN Returned(<<>>, 1)          \* TypeError, AttributeError
    ELSE Returned(<<>>, 1)                                          \* RequestException("API Error")

\* upload_to_sul(file_path, api_key) with the outcome net of its request
upload_to_sul_call(export, filename, api_key, net) ==
    LET pre == Precondition(export, filename, api_key)
    IN  IF pre # "ok" THEN Raised(pre, 0)
        ELSE IF net.kind = "IOError" THEN AfterException(net.kind, 0)
        ELSE IF net.kind = "response" THEN AfterResponse(filename, net)
        ELSE AfterException(net.kind, 1)

InitUpload ==
    /\ csv_file = Absent
    /\ import_dir = {}
    /\ export_dir \in {NoFiles, PutFile(NoFiles, NameA, NameA),
                       PutFile(PutFile(NoFiles, NameA, NameA), NameC, NameC)}
    /\ config \in Settings
    /\ clock = 0
    /\ edit = EditClosed
    /\ gui = GuiIdle
    /\ op = Idle

\* one call of upload_to_sul with the configured key
UploadCall ==
    /\ op.name = "idle"
    /\ \E filename \in {NameA, NameC}, net \in NetOutcomes :
          op' = [name |-> "upload_to_sul", filename |-> filename, api_key |-> config.api_key,
                 net |-> net,
                 result |-> upload_to_sul_call(export_dir, filename, config.api_key, net)]
    /\ UNCHANGED <<csv_file, import_dir, export_dir, config, clock, edit, gui>>

NextUpload == UploadCall

SpecUpload == InitUpload /\ [][NextUpload]_vars

\* C19 (as claimed): upload_to_sul called with a non-empty key and an existing file
\* returns a URL if and only if the response has status 200 and a JSON body with
\* a url field; for every other outcome it returns None and raises nothing.
\* (A url field that is null is left aside: the url returned is then None.)
C19_UrlIffOkElseNone ==
    (/\ op.name = "upload_to_sul"
     /\ op.api_key # <<>>
     /\ op.filename \in Names(export_dir)
     /\ op.net.body # "url_null") =>
        IF /\ op.net.kind = "response"
           /\ op.net.status = 200
           /\ op.net.body = "url"
        THEN op.result.kind = "url"
        ELSE op.result.kind = "None"

\* C20: a call of upload_to_sul makes at most one HTTP request; with an empty key
\* it raises ValueError and with a key but no file FileNotFoundError, in both
\* cases without a request.
C20_AtMostOneRequest ==
    op.name = "upload_to_sul" =>
        /\ op.result.posts <= 1
        /\ op.api_key = <<>> => (op.result.kind = "ValueError" /\ op.result.posts = 0)
        /\ (op.api_key # <<>> /\ op.filename \notin Names(export_dir)) =>
               (op.result.kind = "FileNotFoundError" /\ op.result.posts = 0)
        /\ op.result.posts = 1 => (op.api_key # <<>> /\ op.filename \in Names(export_dir))

\* a call without a key for a file that exists, whose request would have timed out
C20_Witness ==
    /\ op.name = "upload_to_sul"
    /\ op.api_key = <<>>
    /\ op.filename \in Names(export_dir)
    /\ op.net.kind = "Timeout"
    /\ op.result = Raised("ValueError", 0)

-----------------------------------------------------------------------------
(* SpecNuke: the nuke action of the CLI (nuke_everything) and of the GUI      *)
(* (UploaderApp.nuke_action) on a working directory holding a ledger and the  *)
(* two picture folders.  op.isdir tells whether the working directory exists. *)

\* the text the user may type at a confirmation prompt of the CLI
Yes == <<"y", "e", "s">>

TypedPool ==
    { Yes,
      <<"Y", "E", "S">>,
      <<" ", "y", "e", "s", " ">>,
      <<"y">>,
      <<"n", "o">>,
      <<>>,
      <<"y", "e", "s", " ", "y", "e", "s">> }

\* the buttons of messagebox.askyesno
ButtonYes == Str("Yes")
ButtonNo == Str("No")

\* str.lower() on the characters of the typed text
LowerChar(c) ==
    IF c = "Y" THEN "y" ELSE IF c = "E" THEN "e" ELSE IF c = "S" THEN "s" ELSE c

Lower(s) == [i \in 1..Len(s) |-> LowerChar(s[i])]

\* str.strip(): leading and trailing whitespace removed
RECURSIVE LStrip(_)
LStrip(s) == IF s # <<>> /\ Head(s) = " " THEN LStrip(Tail(s)) ELSE s

RECURSIVE RStrip(_)
RStrip(s) == IF s # <<>> /\ s[Len(s)] = " " THEN RStrip(SubSeq(s, 1, Len(s) - 1)) ELSE s

Strip(s) == RStrip(LStrip(s))

\* input(...).strip().lower()
Confirm(typed) == Lower(Strip(typed))

\* a nuke that asks for one confirmation only
NukeGoesAheadAfterOne(variant, answer1, answer2) ==
    IF variant = "nuke_action" THEN answer1 = ButtonYes ELSE Confirm(answer1) = Yes

\* the two nested tests of the confirmations; the second question is asked only
\* after a yes to the first
NukeGoesAhead(variant, answer1, answer2) ==
    IF variant = "nuke_action"
    THEN answer1 = ButtonYes /\ answer2 = ButtonYes
    ELSE Confirm(answer1) = Yes /\ Confirm(answer2) = Yes

NukeLedgers == {Absent} \cup {rewrite_csv(HEADER, d) : d \in SeqsUpTo(BulkPool, 1)}

NukeIdle == [name |-> "idle", isdir |-> TRUE]

InitNuke ==
    /\ csv_file \in NukeLedgers
    /\ import_dir \in SUBSET {NameA, NameB}
    /\ export_dir \in BulkExports \cup {NoFiles}
    /\ config = [api_key |-> ApiKey, enable_upload |-> TRUE]
    /\ clock = 0
    /\ edit = EditClosed
    /\ gui = GuiIdle
    /\ op = NukeIdle

\* shutil.rmtree(abs_base_dir): the directory and all of it removed, or an
\* exception with any part of its contents left behind
Rmtree(ok, kept_csv, kept_import, kept_export) ==
    IF ok
    THEN /\ csv_file' = Absent
         /\ import_dir' = {}
         /\ export_dir' = NoFiles
    ELSE /\ csv_file' = IF kept_csv THEN csv_file ELSE Absent
         /\ import_dir' = kept_import
         /\ export_dir' = [n \in kept_export |-> export_dir[n]]

\* one run of the nuke action: the early return when the directory is gone,
\* the two confirmations, rmtree
Nuke(variant, Answers) ==
    /\ op.isdir
    /\ \E answer1 \in Answers, answer2 \in Answers :
         IF NukeGoesAhead(variant, answer1, answer2)
         THEN \E ok \in BOOLEAN, kept_csv \in BOOLEAN,
                 kept_import \in SUBSET import_dir, kept_export \in SUBSET Names(export_dir) :
                /\ Rmtree(ok, kept_csv, kept_import, kept_export)
                /\ op' = [name |-> variant, answer1 |-> answer1, answer2 |-> answer2,
                          rmtree |-> ok, isdir |-> ~ok]
         ELSE /\ op' = [name |-> variant, answer1 |-> answer1, answer2 |-> answer2,
                        rmtree |-> FALSE, isdir |-> TRUE]
              /\ UNCHANGED <<csv_file, import_dir, export_dir>>
    /\ UNCHANGED <<config, clock, edit, gui>>

nuke_everything == Nuke("nuke_everything", TypedPool)

nuke_action == Nuke("nuke_action", {ButtonYes, ButtonNo})

NextNuke ==
    \/ nuke_everything
    \/ nuke_action

SpecNuke == InitNuke /\ [][NextNuke]_vars

\* the answer is the literal yes: the three characters typed, or the Yes button
LiteralYes(variant, answer) ==
    IF variant = "nuke_action" THEN answer = ButtonYes ELSE answer = Yes

\* the answer is a yes as the script reads it
ReadAsYes(variant, answer) ==
    IF variant = "nuke_action" THEN answer = ButtonYes ELSE Confirm(answer) = Yes

NukeTouched ==
    \/ csv_file' # csv_file
    \/ import_dir' # import_dir
    \/ export_dir' # export_dir
    \/ ~op'.isdir

\* C21 (as claimed): a run of the nuke action changes the working directory
\* or anything in it only if both confirmations were answered with the literal
\* yes.
C21_NukeOnlyAfterTwoLiteralYes ==
    [][NukeTouched =>
         /\ LiteralYes(op'.name, op'.answer1)
         /\ LiteralYes(op'.name, op'.answer2)]_vars

\* C21 (amended): a run of the nuke action changes the working directory or
\* anything in it only if both confirmations were answered with yes, in any
\* letter case and with any whitespace around it; any other first or second
\* answer leaves the ledger and both folders as they were.
C21_NukeOnlyAfterTwoYes ==
    [][NukeTouched =>
         /\ ReadAsYes(op'.name, op'.answer1)
         /\ ReadAsYes(op'.name, op'.answer2)]_vars

\* the directory was deleted after a yes typed in capitals and a yes typed with
\* blanks around it
C21_Witness ==
    /\ op.name = "nuke_everything"
    /\ op.answer1 = <<"Y", "E", "S">>
    /\ op.answer2 = <<" ", "y", "e", "s", " ">>
    /\ ~op.isdir
    /\ csv_file = Absent

-----------------------------------------------------------------------------
(* SpecRenameExisting: the bulk rename of existing items applied once to a    *)
(* ledger and an export folder of the bounds: run_bulk_rename_existing of the *)
(* CLI, run_bulk_rename_existing_thread of the GUI and the Edit window's      *)
(* action_bulk_rename_selected.                                               *)

\* the most rows of a ledger of SpecRenameExisting
MaxExisting == 2

NameX1 == NewBase \o <<"1", ".", "jpg">>
NameX2 == NewBase \o <<"2", ".", "jpg">>

\* the rows of the ledgers: entries already named as the bulk rename names them,
\* one named otherwise, two entries with the same Renamed
ExistingPool ==
    { <<Ts0, NameA, NameX1, EmptyStr>>,
      <<Ts0, NameB, NameX2, UrlU>>,
      <<Ts0, NameC, NameB, EmptyStr>>,
      <<Ts0, NameB, NameX1, EmptyStr>> }

ExistingLedgers == {rewrite_csv(HEADER, d) : d \in SeqsUpTo(ExistingPool, MaxExisting)}

\* the export folders: any of three files, each with a content of its own
ExistingExports ==
    LET all == PutFile(PutFile(PutFile(NoFiles, NameX1, NameA), NameX2, NameB), NameB, NameC)
    IN  {[n \in S |-> all[n]] : S \in SUBSET Names(all)}

InitRenameExisting ==
    /\ csv_file \in ExistingLedgers
    /\ export_dir \in ExistingExports
    /\ import_dir = {}
    /\ config = [api_key |-> EmptyStr, enable_upload |-> FALSE]
    /\ clock = 0
    /\ edit = EditClosed
    /\ gui = GuiIdle
    /\ op = Idle

\* action_bulk_rename_selected, the first pass over potential_renames: the
\* selected rows in table order, numbered from start_number
RECURSIVE FirstPassSelected(_, _, _, _, _)
FirstPassSelected(items_to_rename, base_name, digits, i, st) ==
    IF i > Len(items_to_rename) THEN st
    ELSE LET item_index == items_to_rename[i]
             row == st.final_data[item_index]
             old_name == row[3]
             new_name == base_name \o Padded(i - 1 + start_number, digits) \o SplitExt(old_name)
             stamped == SetAt(st.final_data, item_index, <<Now, row[2], new_name, row[4]>>)
             next ==
                 IF old_name \notin Names(st.export)
                 THEN [st EXCEPT !.skipped_count = @ + 1]
                 ELSE IF old_name = new_name THEN st
                 ELSE IF new_name \in Names(st.export)
                 THEN [st EXCEPT
                         !.export = PutFile(RemoveFile(@, old_name), TempName(old_name), @[old_name]),
                         !.temp_export_files = Append(@, [target |-> new_name,
                                                          temp |-> TempName(old_name),
                                                          index |-> item_index, old_name |-> old_name]),
                         !.final_data = stamped]
                 ELSE [st EXCEPT
                         !.export = PutFile(RemoveFile(@, old_name), new_name, @[old_name]),
                         !.renamed_count = @ + 1,
                         !.final_data = stamped]
         IN  FirstPassSelected(items_to_rename, base_name, digits, i + 1, next)

\* the counters and lists the passes start from
PassesStart(export, data) ==
    [export |-> export, final_data |-> data, temp_export_files |-> <<>>,
     renamed_count |-> 0, skipped_count |-> 0, error_count |-> 0]

\* the three variants differ in the rows they rename and in what makes them save
SaveNeeded(variant, st) ==
    IF variant = "run_bulk_rename_existing"
    THEN st.renamed_count > 0 \/ st.skipped_count > 0 \/ st.error_count > 0
    ELSE st.renamed_count > 0 \/ st.error_count > 0

\* sorted(selected_indices) for a set of selected rows
RECURSIVE InTableOrder(_, _)
InTableOrder(S, n) ==
    IF n = 0 THEN <<>>
    ELSE IF n \in S THEN Append(InTableOrder(S, n - 1), n) ELSE InTableOrder(S, n - 1)

\* one bulk rename of existing items: the ledger is read, the passes run, the
\* ledger is rewritten if needed (the rewrite may fail)
RenameExisting(variant, Selections(_)) ==
    /\ op = Idle
    /\ LET r == get_csv_data(csv_file)
       IN  /\ ~r.none
           /\ r.data # <<>>
           /\ HeaderMatches(r.header)
           /\ \E replace_ok \in BOOLEAN, save_ok \in BOOLEAN, sel \in Selections(Len(r.data)) :
                 LET items == InTableOrder(sel, Len(r.data))
                     digits == Len(Decimal(Len(items) + start_number - 1))
                     st == SecondPass(FirstPassSelected(items, NewBase, digits, 1,
                                                        PassesStart(export_dir, r.data)),
                                      1, replace_ok)
                     save == SaveNeeded(variant, st)
                 IN  /\ export_dir' = st.export
                     /\ csv_file' = IF save /\ save_ok THEN rewrite_csv(r.header, st.final_data)
                                    ELSE csv_file
                     /\ clock' = clock + 1
                     /\ op' = [name |-> variant, pre |-> csv_file, pre_export |-> export_dir,
                               selected |-> sel, error_count |-> st.error_count,
                               saved |-> save /\ save_ok]
    /\ UNCHANGED <<import_dir, config, edit, gui>>

EveryRow(n) == {1..n}

SomeRows(n) == SUBSET (1..n) \ {{}}

RenameExistingCli == RenameExisting("run_bulk_rename_existing", EveryRow)

RenameExistingGuiThread == RenameExisting("run_bulk_rename_existing_thread", EveryRow)

RenameExistingSelected == RenameExisting("action_bulk_rename_selected", SomeRows)

NextRenameExisting ==
    \/ RenameExistingCli
    \/ RenameExistingGuiThread
    \/ RenameExistingSelected

SpecRenameExisting == InitRenameExisting /\ [][NextRenameExisting]_vars

\* the contents of the files of a folder
Contents(dir) == {dir[n] : n \in Names(dir)}

\* no export file was overwritten or lost
SameFiles ==
    /\ Cardinality(Names(export_dir)) = Cardinality(Names(op.pre_export))
    /\ Contents(export_dir) = Contents(op.pre_export)

\* every row whose export file existed names an existing file of that content
RowsFollowFiles ==
    LET before == get_csv_data(op.pre).data
        after == get_csv_data(csv_file).data
    IN  /\ Len(after) = Len(before)
        /\ \A i \in 1..Len(before) :
              before[i][3] \in Names(op.pre_export) =>
                  /\ after[i][3] \in Names(export_dir)
                  /\ export_dir[after[i][3]] = op.pre_export[before[i][3]]

RenameExistingRan ==
    /\ op.name \in {"run_bulk_rename_existing", "run_bulk_rename_existing_thread",
                    "action_bulk_rename_selected"}
    /\ op.error_count = 0

\* C22 (as claimed): a bulk rename of existing items in which no OS rename call
\* failed leaves the export folder with the same number of files and the same
\* contents, and every ledger row whose export file existed before the run
\* names, after it, an existing export file holding that same content.
C22_PureRenaming ==
    RenameExistingRan => SameFiles /\ RowsFollowFiles

-----------------------------------------------------------------------------
(* SpecSettings: init_config, load_config and the settings menu of the CLI    *)
(* (update_settings).  Here config is the dictionary load_config returned,    *)
(* with every key of the file; op holds the config file as last written, and  *)
(* while the settings menu is open its config_parser, the choice made last,   *)
(* the dictionary before that choice and whether its save failed.             *)

DriveId == Str("d")
BaseDir == Str("base")
OtherDir == Str("other")

\* str(flag).lower()
BoolStr(flag) == IF flag THEN "true" ELSE "false"

\* 'false' if old_value == 'true' else 'true'
Toggled(old_value) == IF old_value = "true" THEN "false" ELSE "true"

\* init_config(): the answers to its prompts; uploads can be enabled only with
\* an API key
InitConfigs ==
    { [drive_id |-> d, api_key |-> k, base_dir |-> BaseDir,
       enable_colors |-> BoolStr(c), enable_logging |-> BoolStr(l),
       enable_upload |-> BoolStr(k # <<>> /\ u)] :
         d \in {EmptyStr, DriveId}, k \in {EmptyStr, ApiKey},
         c \in BOOLEAN, l \in BOOLEAN, u \in BOOLEAN }

\* the main menu: the config file as init_config wrote it, the settings menu closed
MainMenu(config_file) ==
    [name |-> "menu", config_file |-> config_file, config_parser |-> config_file,
     before |-> config_file, save_failed |-> FALSE]

InitSettings ==
    /\ \E c \in InitConfigs :
          /\ config = c
          /\ op = MainMenu(c)
    /\ csv_file = Absent
    /\ import_dir = {}
    /\ export_dir = NoFiles
    /\ clock = 0
    /\ edit = EditClosed
    /\ gui = GuiIdle

\* update_settings(config): config_parser['DEFAULT'] = config
SettingsOpen ==
    /\ op.name = "menu"
    /\ op' = [op EXCEPT !.name = "update_settings", !.config_parser = config,
                        !.before = config, !.save_failed = FALSE]
    /\ UNCHANGED <<csv_file, import_dir, export_dir, config, clock, edit, gui>>

\* choice 0
SettingsBack ==
    /\ op.name # "menu"
    /\ op' = MainMenu(op.config_file)
    /\ UNCHANGED <<csv_file, import_dir, export_dir, config, clock, edit, gui>>

\* if setting_changed and setting_key: config_parser is written to the file; an
\* IOError puts old_value back into config[setting_key]
SaveOrRevert(changed, parser, setting_key, old_value, save_ok) ==
    /\ config' = IF save_ok THEN changed ELSE [changed EXCEPT ![setting_key] = old_value]
    /\ op' = [name |-> setting_key,
              config_file |-> IF save_ok THEN parser ELSE op.config_file,
              config_parser |-> parser,
              before |-> config, save_failed |-> ~save_ok]

\* a choice that sets one key of config and of config_parser and saves
SetAndSave(setting_key, new_value, save_ok) ==
    SaveOrRevert([config EXCEPT ![setting_key] = new_value],
                 [op.config_parser EXCEPT ![setting_key] = new_value],
                 setting_key, config[setting_key], save_ok)

\* a choice that changes nothing and does not save
NothingChanged(choice) ==
    /\ config' = config
    /\ op' = [op EXCEPT !.name = choice, !.before = config, !.save_failed = FALSE]

\* choice 1
SettingsDriveId ==
    /\ op.name # "menu"
    /\ \E new_value \in {EmptyStr, DriveId}, save_ok \in BOOLEAN :
          SetAndSave("drive_id", new_value, save_ok)
    /\ UNCHANGED <<csv_file, import_dir, export_dir, clock, edit, gui>>

\* choice 2: removing the key disables uploads, in config and in config_parser
SettingsApiKey ==
    /\ op.name # "menu"
    /\ \E new_value \in {EmptyStr, ApiKey}, save_ok \in BOOLEAN :
          LET disable == new_value = <<>> /\ config.enable_upload = "true"
              disabled == IF disable THEN [config EXCEPT !.enable_upload = "false"] ELSE config
              parser == IF disable THEN [op.config_parser EXCEPT !.enable_upload = "false"]
                        ELSE op.config_parser
          IN  SaveOrRevert([disabled EXCEPT !.api_key = new_value],
                           [parser EXCEPT !.api_key = new_value],
                           "api_key", config.api_key, save_ok)
    /\ UNCHANGED <<csv_file, import_dir, export_dir, clock, edit, gui>>

\* choice 3: a path that is a directory is taken, any other input changes nothing
SettingsBaseDir ==
    /\ op.name # "menu"
    /\ \/ \E new_value \in {BaseDir, OtherDir}, save_ok \in BOOLEAN :
             SetAndSave("base_dir", new_value, save_ok)
       \/ NothingChanged("base_dir")
    /\ UNCHANGED <<csv_file, import_dir, export_dir, clock, edit, gui>>

\* choice 4
SettingsColors ==
    /\ op.name # "menu"
    /\ \E save_ok \in BOOLEAN :
          SetAndSave("enable_colors", Toggled(config.enable_colors), save_ok)
    /\ UNCHANGED <<csv_file, import_dir, export_dir, clock, edit, gui>>

\* choice 5 (the base directory is always set)
SettingsLogging ==
    /\ op.name # "menu"
    /\ \E save_ok \in BOOLEAN :
          SetAndSave("enable_logging", Toggled(config.enable_logging), save_ok)
    /\ UNCHANGED <<csv_file, import_dir, export_dir, clock, edit, gui>>

\* choice 6: uploads cannot be enabled while config has no API key
SettingsUpload ==
    /\ op.name # "menu"
    /\ LET new_value == Toggled(config.enable_upload)
       IN  IF new_value = "true" /\ config.api_key = <<>>
           THEN NothingChanged("enable_upload")
           ELSE \E save_ok \in BOOLEAN : SetAndSave("enable_upload", new_value, save_ok)
    /\ UNCHANGED <<csv_file, import_dir, export_dir, clock, edit, gui>>

NextSettings ==
    \/ SettingsOpen
    \/ SettingsBack
    \/ SettingsDriveId
    \/ SettingsApiKey
    \/ SettingsBaseDir
    \/ SettingsColors
    \/ SettingsLogging
    \/ SettingsUpload

SpecSettings == InitSettings /\ [][NextSettings]_vars

UploadNeedsKey(c) == c.enable_upload = "true" => c.api_key # <<>>

\* C23 (as claimed): from init_config on, through any settings-menu operations
\* with any of the saves failing, enable_upload is 'true' only if api_key is
\* non-empty, in the in-memory configuration and in the configuration last
\* written to the config file.
C23_UploadEnabledOnlyWithKey ==
    /\ UploadNeedsKey(config)
    /\ UploadNeedsKey(op.config_file)

\* C24 (as claimed): after a failed write of the config file in the settings
\* menu, the in-memory configuration equals, on every key, the in-memory
\* configuration before the attempted change.
C24_FailedSaveRestoresConfig ==
    op.save_failed => config = op.before

-----------------------------------------------------------------------------
(* SpecEdit: one session of edit_entry of the CLI on a ledger of the bounds,  *)
(* with saved edits of the selected entry and a delete whose rewrite of the   *)
(* ledger may fail                                                            *)

\* the most rows of a ledger of SpecEdit
MaxEdit == 2

EditLedgers == {rewrite_csv(HEADER, d) : d \in SeqsUpTo(BulkPool, MaxEdit) \ {<<>>}}

InitEdit ==
    /\ csv_file \in EditLedgers
    /\ import_dir = {NameA}
    /\ export_dir \in BulkExports
    /\ config \in {[api_key |-> ApiKey, enable_upload |-> TRUE],
                   [api_key |-> EmptyStr, enable_upload |-> FALSE]}
    /\ clock = 0
    /\ edit = EditClosed
    /\ gui = GuiIdle
    /\ op = Idle

\* data.insert(item_index, row)
InsertAt(seq, i, x) == SubSeq(seq, 1, i - 1) \o <<x>> \o SubSeq(seq, i, Len(seq))

\* the row the except clause inserts: the copy taken when the entry was selected
RowRestored(data, item_index, original_row_data) == original_row_data

\* action 4, Delete Entry, with the rewrite of the ledger failing: IOError at
\* open() leaves the file, an error while writing leaves it truncated; the row
\* is inserted again and the action loop goes on with the same entry
EditDeleteFails ==
    /\ edit.open
    /\ edit.item_index # 0
    /\ \E delete_files_choice \in BOOLEAN, truncated \in BOOLEAN :
          LET data == RemoveAt(edit.data, edit.item_index)
              current_original_name == edit.current_row_copy[2]
              current_renamed_name == edit.current_row_copy[3]
              restored == InsertAt(data, edit.item_index,
                                   RowRestored(edit.data, edit.item_index, edit.original_row_data))
          IN  /\ export_dir' = IF delete_files_choice /\ current_renamed_name \in Names(export_dir)
                               THEN RemoveFile(export_dir, current_renamed_name)
                               ELSE export_dir
              /\ import_dir' = IF delete_files_choice THEN import_dir \ {current_original_name}
                               ELSE import_dir
              /\ csv_file' = IF truncated THEN File(<<>>) ELSE csv_file
              /\ edit' = [edit EXCEPT !.data = restored]
              /\ op' = [name |-> "delete_failed", data |-> edit.data,
                        item_index |-> edit.item_index]
    /\ UNCHANGED <<config, clock, gui>>

NextEdit ==
    \/ EditOpen
    \/ EditSelect
    \/ EditBack
    \/ EditRename
    \/ EditReupload
    \/ EditUrl
    \/ EditDelete
    \/ EditDeleteFails

SpecEdit == InitEdit /\ [][NextEdit]_vars

\* C25 (as claimed): when the rewrite of the ledger fails after an entry was
\* deleted, the in-memory row list is again exactly what it was immediately
\* before the delete, whatever saved edits of that entry came before.
C25_FailedDeleteRestoresRows ==
    op.name = "delete_failed" => edit.data = op.data

-----------------------------------------------------------------------------
(* SpecQuickFix: 'Attempt Quick Fixes' of the problem solver                  *)
(* (ProblemFixerApp.quick_fix_worker) run once on a ledger and folders of the *)
(* bounds                                                                     *)

\* the most rows of a ledger of SpecQuickFix
MaxFix == 2

\* rows with and without a Renamed name, with and without a URL
FixPool ==
    { <<Ts0, NameA, NameX, EmptyStr>>,
      <<Ts0, NameB, EmptyStr, EmptyStr>>,
      <<Ts0, NameC, NameC, UrlU>>,
      <<Ts0, NameA, EmptyStr, UrlU>> }

FixLedgers == {rewrite_csv(HEADER, d) : d \in SeqsUpTo(FixPool, MaxFix)}

FixExports ==
    LET all == PutFile(PutFile(PutFile(NoFiles, NameX, NameA), NameB, NameB), NameC, NameC)
    IN  {[n \in S |-> all[n]] : S \in SUBSET Names(all)}

InitQuickFix ==
    /\ csv_file \in FixLedgers
    /\ import_dir \in SUBSET {NameA, NameB}
    /\ export_dir \in FixExports
    /\ config \in {[api_key |-> ApiKey, enable_upload |-> TRUE],
                   [api_key |-> EmptyStr, enable_upload |-> FALSE]}
    /\ clock = 0
    /\ edit = EditClosed
    /\ gui = GuiIdle
    /\ op = Idle

\* os.path.exists(os.path.join(folder, name)): with an empty name the path is
\* the folder itself, which exists
PathExists(names, name) == name = <<>> \/ name \in names

\* Fix 3: data[i][renamed_idx] = original_name
Fill(st, i, original_name) ==
    [st EXCEPT !.data = SetAt(@, i, [@[i] EXCEPT ![3] = original_name]),
               !.needs_csv_save = TRUE]

\* the loop over data of quick_fix_worker: the copies of Fix 1 and Fix 2 (each
\* may fail), Fix 3, and the rows Fix 4 lists for an upload
RECURSIVE FixRows(_, _, _)
FixRows(st, i, copy_ok) ==
    IF i > Len(st.data) THEN st
    ELSE LET row == st.data[i]
             original_name == row[2]
             renamed_name == row[3]
             url == row[4]
             import_exists == PathExists(st.import, original_name)
             export_exists == PathExists(Names(st.export), renamed_name)
             copied ==
                 IF ~export_exists /\ import_exists
                 THEN IF renamed_name = <<>> THEN st
                      ELSE IF copy_ok[i]
                      THEN [st EXCEPT !.export = PutFile(@, renamed_name, original_name),
                                      !.fixed_exports = @ + 1]
                      ELSE [st EXCEPT !.copy_errors = @ + 1]
                 ELSE IF ~import_exists /\ export_exists
                 THEN IF original_name = <<>> THEN st
                      ELSE IF copy_ok[i]
                      THEN [st EXCEPT !.import = @ \cup {original_name}, !.fixed_imports = @ + 1]
                      ELSE [st EXCEPT !.copy_errors = @ + 1]
                 ELSE st
             export_exists_1 == export_exists \/ copied.fixed_exports > st.fixed_exports
             fill == renamed_name = <<>> /\ original_name # <<>>
             filled == IF fill THEN Fill(copied, i, original_name) ELSE copied
             renamed_name_2 == IF fill THEN original_name ELSE renamed_name
             export_exists_2 == IF fill THEN PathExists(Names(filled.export), renamed_name_2)
                                ELSE export_exists_1
             listed ==
                 IF url = <<>> /\ export_exists_2 /\ uploads_enabled /\ config.api_key # <<>>
                 THEN [filled EXCEPT !.uploads_to_attempt =
                           Append(@, [index |-> i, renamed_name |-> renamed_name_2])]
                 ELSE filled
         IN  FixRows(listed, i + 1, copy_ok)

\* item_index = next((item["index"] ... if item["renamed_name"] == result["file"]), -1)
FixItemIndex(uploads_to_attempt, file) ==
    LET k == CHOOSE k \in 1..Len(uploads_to_attempt) :
                 /\ uploads_to_attempt[k].renamed_name = file
                 /\ \A j \in 1..(k - 1) : uploads_to_attempt[j].renamed_name # file
    IN  uploads_to_attempt[k].index

\* the loop that takes the results from upload_queue: a result with a URL sets
\* URL and timestamp of the row its file name maps to; a result is "lost" when
\* the loop ends on queue.Empty before it is taken
RECURSIVE FixUploads(_, _, _)
FixUploads(st, k, results) ==
    IF k > Len(st.uploads_to_attempt) THEN st
    ELSE LET file == st.uploads_to_attempt[k].renamed_name
             item_index == FixItemIndex(st.uploads_to_attempt, file)
             row == st.data[item_index]
             next == IF results[k] = "url"
                     THEN [st EXCEPT !.data = SetAt(@, item_index,
                                                    <<Now, row[2], row[3], UrlOf(file)>>),
                                     !.needs_csv_save = TRUE]
                     ELSE st
         IN  FixUploads(next, k + 1, results)

\* header[orig_idx] == "Original" and header[renamed_idx] == "Renamed" and
\* header[url_idx] == "URL"
FixHeaderMatches(header) ==
    /\ Len(header) >= 4
    /\ header[2] = Str("Original")
    /\ header[3] = Str("Renamed")
    /\ header[4] = Str("URL")

\* quick_fix_worker()
QuickFix ==
    /\ op = Idle
    /\ LET r == get_csv_data(csv_file)
       IN  /\ ~r.none
           /\ FixHeaderMatches(r.header)
           /\ \E copy_ok \in [1..Len(r.data) -> BOOLEAN], save_ok \in BOOLEAN :
                 LET st0 == [data |-> r.data, import |-> import_dir, export |-> export_dir,
                             uploads_to_attempt |-> <<>>, needs_csv_save |-> FALSE,
                             fixed_exports |-> 0, fixed_imports |-> 0, copy_errors |-> 0]
                     fixed == FixRows(st0, 1, copy_ok)
                 IN  \E results \in [1..Len(fixed.uploads_to_attempt) -> {"url", "None", "lost"}] :
                        LET st == FixUploads(fixed, 1, results)
                        IN  /\ import_dir' = st.import
                            /\ export_dir' = st.export
                            /\ csv_file' = IF st.needs_csv_save /\ save_ok
                                           THEN rewrite_csv(r.header, st.data) ELSE csv_file
                            /\ clock' = clock + 1
                            /\ op' = [name |-> "quick_fix_worker", pre |-> csv_file,
                                      copy_errors |-> st.copy_errors,
                                      saved |-> st.needs_csv_save /\ save_ok]
    /\ UNCHANGED <<config, edit, gui>>

NextQuickFix == QuickFix

SpecQuickFix == InitQuickFix /\ [][NextQuickFix]_vars

\* C26 (as claimed): after a quick fix without a copy error, every ledger row
\* with a non-empty Original whose import file exists has an existing export
\* file under the Renamed name the ledger then holds for it.
C26_QuickFixGivesExportFiles ==
    (op.name = "quick_fix_worker" /\ op.copy_errors = 0) =>
        LET data == get_csv_data(csv_file).data
        IN  \A i \in 1..Len(data) :
               (data[i][2] # <<>> /\ data[i][2] \in import_dir) =>
                   (data[i][3] # <<>> /\ data[i][3] \in Names(export_dir))

-----------------------------------------------------------------------------
(* The duplicate filter, checked under SpecScan *)

\* C3 (as claimed): for every ledger and every listing, the files-to-process of
\* either import source are the listed files that are not an Original of the
\* ledger, in ascending sorted order.
C3_FilesToProcessSorted ==
    op.name \in {"scan_drive", "scan_local"} =>
        op.res = SelectSeq(Sorted(import_dir),
                           LAMBDA file : file \notin read_uploaded_originals(csv_file))

=============================================================================
